---- MODULE Spec2Model ----
(***************************************************************************)
(* Session store of the assistant control plane: the advisory lock file,   *)
(* the locked read-modify-write transactions, the process-local read cache *)
(* and the store file, modelled from config/sessions/store.ts              *)
(* (src/unnamed/part_000, lines 358-885).                                  *)
(*                                                                         *)
(* A task is one asynchronous call of a store operation; tasks of the same *)
(* process share that process's cache, all tasks share the store file and  *)
(* its lock sidecar.  A step of a task is the code between two awaits.     *)
(***************************************************************************)
EXTENDS Integers, FiniteSets, Sequences, TLC

VARIABLES
  now,        \* the clock, in ms (Date.now() and the file system's clock)
  ticks,      \* number of clock advances so far
  lock,       \* the lock sidecar <path>.lock
  file,       \* the store file
  cache,      \* SESSION_STORE_CACHE of every process (one store path)
  pc,         \* position of every task
  op,         \* the operation a task runs and its arguments
  startedAt,  \* withSessionStoreLock: const startedAt
  nowL,       \* withSessionStoreLock: const now (line 756)
  wakeAt,     \* end of the task's setTimeout(pollIntervalMs)
  store,      \* the `store` object of the task's transaction body
  result,     \* what the call returned or threw
  hist,       \* what the call has done so far: callback invoked, file written
  held,       \* snapshots returned by loadSessionStore that callers still hold
  act,        \* the last call made by a caller of loadSessionStore
  fallback,   \* one call of runWithModelFallback: its arguments, loop and outcome
  resolved,   \* one call of resolveFallbackCandidates and the runs made on its result
  gateway,    \* one call of callGateway: its client, timer and promise
  cli,        \* one call of agentCliCommand
  session,    \* one call of resolveSession on an entry given by the caller
  resolution, \* one call of resolveSession on the store file: its arguments and result
  agent       \* one process running agentCommand: its locals and what it has done

vars == <<now, ticks, lock, file, cache, pc, op, startedAt, nowL, wakeAt,
          store, result, hist, held, act, fallback, resolved, gateway, cli, session,
          resolution, agent>>

\* The variables that the session store leaves alone
nonStoreVars == <<fallback, resolved, gateway, cli, session, resolution, agent>>

\* The variables of the session store
storeVars == <<now, ticks, lock, file, cache, pc, op, startedAt, nowL, wakeAt,
               store, result, hist, held, act>>

\* The variables that runWithModelFallback leaves alone
nonFallbackVars == <<storeVars, resolved, gateway, cli, session, resolution, agent>>

\* The variables that resolveFallbackCandidates leaves alone
nonResolvedVars == <<storeVars, fallback, gateway, cli, session, resolution, agent>>

\* The variables that callGateway leaves alone
nonGatewayVars == <<storeVars, fallback, resolved, cli, session, resolution, agent>>

\* The variables that agentCliCommand leaves alone
nonCliVars == <<storeVars, fallback, resolved, gateway, session, resolution, agent>>

\* The variables that resolveSession leaves alone
nonSessionVars == <<storeVars, fallback, resolved, gateway, cli, resolution, agent>>

\* The variables of the other subsystems, which the session resolver and
\* agentCommand leave alone
engineVars == <<fallback, resolved, gateway, cli, session>>

-----------------------------------------------------------------------------
(* Program constants *)

timeoutMs == 10000
pollIntervalMs == 25
staleMs == 30000
DEFAULT_SESSION_STORE_TTL_MS == 45000

(* Bounds of the model *)

MaxTicks == 2
MaxTxnTicks == 1
MaxRecoveryTicks == 2
MaxCacheTicks == 2
MaxHeld == 2
MaxCrashes == 1
MaxSaveTicks == 1
MaxLoadTicks == 1
MaxCandidates == 3
MaxFallbacks == 2
MaxOverride == 1
MaxGatewayTicks == 3
MaxResolverTicks == 2
MaxAgentTicks == 1
MaxThrowTicks == 1

Tasks == {"t1", "t2", "t3"}
Procs == {"p1", "p2"}
ProcOf(t) == IF t = "t2" THEN "p2" ELSE "p1"
Keys == {"k1", "k2"}
TickSteps == {pollIntervalMs, staleMs}
ObjIds == 1 .. (MaxHeld + 2)

NoTask == "none"
NoMtime == -1

-----------------------------------------------------------------------------
(* Values: a session entry is a partial function from field names to       *)
(* values, a store is a partial function from session keys to entries.     *)

EmptyFcn == [x \in {} |-> 0]
Has(e, f) == f \in DOMAIN e
Put(e, f, v) == [x \in (DOMAIN e) \cup {f} |-> IF x = f THEN v ELSE e[x]]
Del(e, f) == [x \in (DOMAIN e) \ {f} |-> e[x]]

Store0 == [k \in {"k1"} |-> Put(Put(EmptyFcn, "counter", 0), "provider", "telegram")]
SaveInput == [k \in {"k2"} |-> Put(EmptyFcn, "thinkingLevel", "low")]

NoFile == [exists |-> FALSE, raw |-> [kind |-> "none", val |-> EmptyFcn], mtime |-> NoMtime]
NoLock == [present |-> FALSE, mtime |-> 0, owner |-> NoTask]
NoObj == [val |-> EmptyFcn, id |-> 0]
\* src is history: the file the entry was read from
NoCache == [present |-> FALSE, store |-> NoObj, loadedAt |-> 0, mtimeMs |-> NoMtime,
            src |-> NoFile]
NoOp == [kind |-> "none", key |-> "k1", arg |-> "none"]
NoAct == [kind |-> "none", skip |-> FALSE]

JsonStringify(s) == [kind |-> "object", val |-> s]
WriteFile(s) == [exists |-> TRUE, raw |-> JsonStringify(s), mtime |-> now]
InitFiles == {NoFile, [exists |-> TRUE, raw |-> JsonStringify(Store0), mtime |-> 0]}

-----------------------------------------------------------------------------
(* loadSessionStore and its helpers *)

getFileMtimeMs(f) == IF f.exists THEN f.mtime ELSE NoMtime

getSessionStoreTtl == DEFAULT_SESSION_STORE_TTL_MS

isSessionStoreCacheEnabled == getSessionStoreTtl > 0

\* isSessionStoreCacheValid with < for the <= of line 407
isSessionStoreCacheValid_Strict(entry) == now - entry.loadedAt < getSessionStoreTtl

isSessionStoreCacheValid(entry) == now - entry.loadedAt <= getSessionStoreTtl

\* A parsed value is of kind object, array, null or number; the content of a
\* file can also be text that is no JSON5, or unreadable
TypeOf(value) == IF value.kind \in {"object", "array", "null"} THEN "object" ELSE value.kind
Truthy(value) == value.kind # "null"
IsArray(value) == value.kind = "array"

\* isSessionStoreRecord without the Array.isArray test of line 390
isSessionStoreRecord_NoArrayTest(value) == Truthy(value) /\ TypeOf(value) = "object"

isSessionStoreRecord(value) ==
  Truthy(value) /\ TypeOf(value) = "object" /\ ~IsArray(value)

\* The error raised inside the try of lines 534-565, "none" if there is none
LoadError(f) ==
  IF ~f.exists THEN "ENOENT"
  ELSE IF f.raw.kind = "unreadable" THEN "EACCES"
  ELSE IF f.raw.kind = "text" THEN "SyntaxError"
  ELSE "none"

\* catch { } of line 565 catches every error
Caught(err) == TRUE

\* Whether a call of loadSessionStore on file f ends with an exception
loadSessionStoreThrows(f) == LoadError(f) # "none" /\ ~Caught(LoadError(f))

\* fs.readFileSync + JSON5.parse + isSessionStoreRecord; a failure leaves {}
ParseStoreFile(f) ==
  IF LoadError(f) = "none" /\ isSessionStoreRecord(f.raw) THEN f.raw.val ELSE EmptyFcn

MigrateEntry(e) ==
  LET e1 == IF ~Has(e, "channel") /\ Has(e, "provider")
            THEN Del(Put(e, "channel", e["provider"]), "provider") ELSE e
      e2 == IF ~Has(e1, "lastChannel") /\ Has(e1, "lastProvider")
            THEN Del(Put(e1, "lastChannel", e1["lastProvider"]), "lastProvider") ELSE e1
  IN  IF ~Has(e2, "groupChannel") /\ Has(e2, "room")
      THEN Del(Put(e2, "groupChannel", e2["room"]), "room")
      ELSE IF Has(e2, "room") THEN Del(e2, "room") ELSE e2

MigrateStore(s) == [k \in DOMAIN s |-> MigrateEntry(s[k])]

FreshId(used) == CHOOSE i \in ObjIds \ used : \A j \in ObjIds \ used : i <= j

\* structuredClone replaced by handing out the object itself
structuredClone_Alias(o, used) == o

structuredClone(o, used) == [val |-> o.val, id |-> FreshId(used)]

HeldIds(p) == {held[p][i].id : i \in DOMAIN held[p]}

\* What one call returns (ret), the cache entry it leaves (cache), and whether
\* it answered from the cache (hit).
loadSessionStore(p, skipCache) ==
  LET cached == cache[p]
      useCache == ~skipCache /\ isSessionStoreCacheEnabled
      hit == useCache /\ cached.present /\ isSessionStoreCacheValid(cached)
             /\ getFileMtimeMs(file) = cached.mtimeMs
      cacheId == FreshId(HeldIds(p))
      retId == FreshId(HeldIds(p) \cup {cacheId})
      parsed == [val |-> MigrateStore(ParseStoreFile(file)),
                 id |-> FreshId(HeldIds(p) \cup {cacheId, retId})]
  IN  IF hit
      THEN [ret |-> structuredClone(cached.store, HeldIds(p) \cup {cached.store.id}),
            cache |-> cached, hit |-> TRUE]
      ELSE [ret |-> structuredClone(parsed, HeldIds(p) \cup {cacheId}),
            cache |-> IF useCache
                      THEN [present |-> TRUE,
                            store |-> structuredClone(parsed, HeldIds(p)),
                            loadedAt |-> now,
                            mtimeMs |-> getFileMtimeMs(file),
                            src |-> file]
                      ELSE cached,
            hit |-> FALSE]

-----------------------------------------------------------------------------
(* saveSessionStoreUnlocked and its helpers *)

normalizeSessionDeliveryFields(e) ==
  IF Has(e, "lastChannel") THEN e["lastChannel"]
  ELSE IF Has(e, "channel") THEN e["channel"]
  ELSE IF Has(e, "deliveryContext") THEN e["deliveryContext"]
  ELSE "undefined"

normalizeSessionEntryDelivery(e) ==
  LET next == normalizeSessionDeliveryFields(e)
      cur(f) == IF Has(e, f) THEN e[f] ELSE "undefined"
  IN  IF cur("deliveryContext") = next /\ cur("lastChannel") = next
      THEN e
      ELSE Put(Put(e, "deliveryContext", next), "lastChannel", next)

normalizeSessionStore(s) == [k \in DOMAIN s |-> normalizeSessionEntryDelivery(s[k])]

mergeSessionEntry(existing, patch) ==
  [f \in (DOMAIN existing) \cup (DOMAIN patch) |->
     IF f \in DOMAIN patch THEN patch[f] ELSE existing[f]]

-----------------------------------------------------------------------------
(* runWithModelFallback: candidates, errors and their classification *)

\* The i-th candidate of the resolved list: candidates differ in their key
Candidate(i) == [provider |-> <<"provider", i>>, model |-> <<"model", i>>]

\* What run can throw.  object: a non-null object; failover: an instance of
\* FailoverError; timeout: what isTimeoutError answers; reason: the failover
\* reason the error can be classified as ("none": it cannot); origin: thrown
\* by run, or made by coerceToFailoverError for candidate `at` around an error
\* named `wraps`
Thrown(name, object, failover, timeout, reason) ==
  [name |-> name, object |-> object, failover |-> failover, timeout |-> timeout,
   reason |-> reason, origin |-> "run", at |-> 0, wraps |-> "none"]

NoError == Thrown("none", FALSE, FALSE, FALSE, "none")

RunErrors ==
  {Thrown("FailoverError", TRUE, TRUE, FALSE, "auth"),
   Thrown("Error", TRUE, FALSE, FALSE, "rate_limit"),
   Thrown("Error", TRUE, FALSE, FALSE, "none"),
   Thrown("string", FALSE, FALSE, FALSE, "none"),
   Thrown("AbortError", TRUE, FALSE, FALSE, "none"),
   Thrown("AbortError", TRUE, FALSE, FALSE, "rate_limit"),
   Thrown("AbortError", TRUE, FALSE, TRUE, "timeout"),
   Thrown("TimeoutError", TRUE, FALSE, TRUE, "timeout")}

isFailoverError(err) == err.failover

isTimeoutError(err) == err.timeout

isAbortError(err) ==
  IF ~err.object THEN FALSE
  ELSE IF isFailoverError(err) THEN FALSE
  ELSE err.name = "AbortError"

\* shouldRethrowAbort that never asks for a rethrow
shouldRethrowAbort_Never(err) == FALSE

\* shouldRethrowAbort without the timeout test
shouldRethrowAbort_AnyAbort(err) == isAbortError(err)

\* isAbortError(err) && !isTimeoutError(err)
shouldRethrowAbort(err) == isAbortError(err) /\ ~isTimeoutError(err)

\* coerceToFailoverError: a FailoverError is returned as it is, an error with
\* a failover reason is wrapped in a new FailoverError, any other gives null
coerceToFailoverError(err, i) ==
  IF isFailoverError(err) THEN err
  ELSE IF err.reason = "none" THEN NoError
  ELSE [name |-> "FailoverError", object |-> TRUE, failover |-> TRUE,
        timeout |-> err.timeout, reason |-> err.reason, origin |-> "coerced", at |-> i,
        wraps |-> err.name]

\* Normalized making a FailoverError of an error that has no failover reason
Normalized_AlwaysFailover(err, i) ==
  IF isFailoverError(err) THEN err
  ELSE [name |-> "FailoverError", object |-> TRUE, failover |-> TRUE,
        timeout |-> err.timeout, reason |-> "unknown", origin |-> "coerced", at |-> i,
        wraps |-> err.name]

\* coerceToFailoverError(err, {provider, model}) ?? err
Normalized(err, i) ==
  IF coerceToFailoverError(err, i) = NoError THEN err ELSE coerceToFailoverError(err, i)

\* describeFailoverError: the message stands for the error it describes
describeFailoverError(err) == [message |-> <<err.name, err.origin>>, reason |-> err.reason]

\* The attempt pushed for candidate i after its run failed with failover error err
FailedAttempt(i, err) ==
  [provider |-> Candidate(i).provider, model |-> Candidate(i).model,
   error |-> describeFailoverError(err).message,
   reason |-> describeFailoverError(err).reason]

\* The attempt pushed for a candidate whose auth profiles are all in cooldown
CooldownAttempt(i) ==
  [provider |-> Candidate(i).provider, model |-> Candidate(i).model,
   error |-> <<"Provider", Candidate(i).provider, "is in cooldown">>,
   reason |-> "rate_limit"]

\* FormatAttempt leaving the reason out
FormatAttempt_NoReason(attempt) ==
  <<attempt.provider, "/", attempt.model, ": ", attempt.error>>

\* `${provider}/${model}: ${error}${reason ? ` (${reason})` : ""}`
FormatAttempt(attempt) ==
  <<attempt.provider, "/", attempt.model, ": ", attempt.error>>
    \o (IF attempt.reason # "none" THEN <<" (", attempt.reason, ")">> ELSE <<>>)

\* attempts.map(...).join(" | "), or "unknown"
RECURSIVE JoinAttempts(_)
JoinAttempts(attempts) ==
  IF attempts = <<>> THEN <<>>
  ELSE IF Len(attempts) = 1 THEN FormatAttempt(attempts[1])
  ELSE FormatAttempt(attempts[1]) \o <<" | ">> \o JoinAttempts(Tail(attempts))

Summary(attempts) == IF Len(attempts) > 0 THEN JoinAttempts(attempts) ELSE <<"unknown">>

\* `All models failed (${attempts.length || candidates.length}): ${summary}`
AllModelsFailed(attempts, n) ==
  <<"All models failed (", IF Len(attempts) # 0 THEN Len(attempts) ELSE n, "): ">>
    \o Summary(attempts)

NoOutcome ==
  [kind |-> "none", provider |-> <<>>, model |-> <<>>, attempts |-> <<>>,
   error |-> NoError, message |-> <<>>, cause |-> NoError]

NoFallback ==
  [phase |-> "idle", cfg |-> FALSE, onError |-> FALSE, n |-> 0, profiles |-> <<>>,
   i |-> 0, attempts |-> <<>>, lastError |-> NoError, runs |-> <<>>, raised |-> <<>>,
   reached |-> <<>>, observed |-> <<>>, pending |-> 0, outcome |-> NoOutcome]

-----------------------------------------------------------------------------
(* resolveFallbackCandidates: model references, allowlist and inputs *)

DEFAULT_PROVIDER == "anthropic"
DEFAULT_MODEL == "opus"

Ref(provider, model) == [provider |-> provider, model |-> model]

\* null where a model reference is expected
NoRef == Ref("", "")

\* modelKey(provider, model)
modelKey(provider, model) == <<provider, "/", model>>

\* String(x ?? "").trim() on the strings callers pass
Trim(str) ==
  CASE str = " " -> ""
    [] str = " openai " -> "openai"
    [] str = " sid-a " -> "sid-a"
    [] OTHER -> str

\* An entry of a fallback list: a provider/model string, an alias of the
\* alias table, or a string that resolves to nothing
RawRefs ==
  {[kind |-> "ref", ref |-> Ref("openai", "gpt")],
   [kind |-> "ref", ref |-> Ref("anthropic", "gpt")],
   [kind |-> "alias", ref |-> Ref("openai", "gpt")],
   [kind |-> "bad", ref |-> NoRef]}

\* resolveModelRefFromString(...)?.ref, or null
resolveModelRefFromString(raw) == IF raw.kind = "bad" THEN NoRef ELSE raw.ref

SeqsUpTo(S, n) == UNION {[1 .. k -> S] : k \in 0 .. n}

\* The model part of a config: what resolveConfiguredModelRef answers, the
\* keys of agents.defaults.models after parseModelRef (NoRef: unparsable),
\* and agents.defaults.model.fallbacks
Configs ==
  [present : {TRUE},
   primary : {Ref(DEFAULT_PROVIDER, DEFAULT_MODEL), Ref("openai", "gpt")},
   models : SUBSET {Ref(DEFAULT_PROVIDER, DEFAULT_MODEL), Ref("openai", "gpt"), NoRef},
   fallbacks : SeqsUpTo(RawRefs, MaxFallbacks)]

\* cfg is undefined
NoConfig == [present |-> FALSE, primary |-> NoRef, models |-> {}, fallbacks |-> <<>>]

\* params.fallbacksOverride: undefined, or a list
NoOverride == [given |-> FALSE, list |-> <<>>]

Overrides == {NoOverride} \cup [given : {TRUE}, list : SeqsUpTo(RawRefs, MaxOverride)]

\* params.provider and params.model
Requests ==
  {Ref(" ", ""), Ref("anthropic", "opus"), Ref(" openai ", "gpt"), Ref("anthropic", "gpt")}

\* null where an allowlist is expected
NoAllowlist == [none |-> TRUE, keys |-> {}]

\* buildAllowedModelKeys: null when the config lists no model or none parses
buildAllowedModelKeys(cfg) ==
  IF Cardinality(cfg.models) = 0 THEN NoAllowlist
  ELSE IF cfg.models \ {NoRef} = {} THEN NoAllowlist
  ELSE [none |-> FALSE, keys |-> {modelKey(r.provider, r.model) : r \in cfg.models \ {NoRef}}]

\* addCandidate of resolveFallbackCandidates on the pair (seen, candidates)
addCandidate(acc, allowlist, candidate, enforceAllowlist) ==
  IF candidate.provider = "" \/ candidate.model = "" THEN acc
  ELSE IF modelKey(candidate.provider, candidate.model) \in acc.seen THEN acc
  ELSE IF enforceAllowlist /\ ~allowlist.none
          /\ modelKey(candidate.provider, candidate.model) \notin allowlist.keys
  THEN acc
  ELSE [seen |-> acc.seen \cup {modelKey(candidate.provider, candidate.model)},
        candidates |-> Append(acc.candidates, candidate)]

\* The for loop over modelFallbacks
RECURSIVE addFallbacks(_, _, _)
addFallbacks(acc, allowlist, modelFallbacks) ==
  IF modelFallbacks = <<>> THEN acc
  ELSE IF resolveModelRefFromString(Head(modelFallbacks)) = NoRef
  THEN addFallbacks(acc, allowlist, Tail(modelFallbacks))
  ELSE addFallbacks(addCandidate(acc, allowlist, resolveModelRefFromString(Head(modelFallbacks)), TRUE),
                    allowlist, Tail(modelFallbacks))

\* params.fallbacksOverride, else the fallbacks of the config
modelFallbacks(cfg, override) == IF override.given THEN override.list ELSE cfg.fallbacks

\* The provider and model of the first candidate
RequestedRef(cfg, request) ==
  Ref(IF Trim(request.provider) # "" THEN Trim(request.provider)
      ELSE IF cfg.present THEN cfg.primary.provider ELSE DEFAULT_PROVIDER,
      IF Trim(request.model) # "" THEN Trim(request.model)
      ELSE IF cfg.present THEN cfg.primary.model ELSE DEFAULT_MODEL)

\* resolveFallbackCandidates with every candidate filtered by the allowlist
resolveFallbackCandidates_FilterAll(cfg, override, request) ==
  LET listed == addFallbacks(addCandidate([seen |-> {}, candidates |-> <<>>],
                                          buildAllowedModelKeys(cfg),
                                          RequestedRef(cfg, request), TRUE),
                             buildAllowedModelKeys(cfg), modelFallbacks(cfg, override))
  IN IF ~override.given /\ cfg.present
     THEN addCandidate(listed, buildAllowedModelKeys(cfg), cfg.primary, FALSE).candidates
     ELSE listed.candidates

\* The requested model first, then the fallback list filtered by the
\* allowlist, then the configured primary unless an override list was given
resolveFallbackCandidates(cfg, override, request) ==
  LET listed == addFallbacks(addCandidate([seen |-> {}, candidates |-> <<>>],
                                          buildAllowedModelKeys(cfg),
                                          RequestedRef(cfg, request), FALSE),
                             buildAllowedModelKeys(cfg), modelFallbacks(cfg, override))
  IN IF ~override.given /\ cfg.present
     THEN addCandidate(listed, buildAllowedModelKeys(cfg), cfg.primary, FALSE).candidates
     ELSE listed.candidates

NoResolved ==
  [phase |-> "idle", cfg |-> NoConfig, override |-> NoOverride, request |-> NoRef,
   candidates |-> <<>>, ran |-> <<>>]

-----------------------------------------------------------------------------
(* callGateway: options, connection details, errors and the stop function *)

DefaultGatewayTimeoutMs == 10000
GatewayTickStep == 5000

\* opts.timeoutMs is undefined
NoTimeoutOpt == -1

\* What callGateway reads of its options and config: gateway.mode = "remote",
\* a non-blank opts.url, a non-blank gateway.remote.url, opts.timeoutMs
GatewayOpts ==
  [remote : BOOLEAN, url : BOOLEAN, remoteUrl : BOOLEAN,
   timeoutMs : {NoTimeoutOpt, GatewayTickStep}]

\* opts.timeoutMs ?? 10_000
TimeoutOf(opts) ==
  IF opts.timeoutMs = NoTimeoutOpt THEN DefaultGatewayTimeoutMs ELSE opts.timeoutMs

\* isRemoteMode && !urlOverride && !remoteUrl
RemoteMisconfigured(opts) == opts.remote /\ ~opts.url /\ ~(opts.remote /\ opts.remoteUrl)

\* buildGatewayConnectionDetails: the target and how it was chosen
buildGatewayConnectionDetails(opts) ==
  IF opts.url THEN [url |-> "opts.url", urlSource |-> "cli --url"]
  ELSE IF opts.remote /\ opts.remoteUrl
  THEN [url |-> "gateway.remote.url", urlSource |-> "config gateway.remote.url"]
  ELSE IF RemoteMisconfigured(opts)
  THEN [url |-> "localUrl", urlSource |-> "missing gateway.remote.url (fallback local)"]
  ELSE [url |-> "localUrl", urlSource |-> "local loopback"]

\* connectionDetails.message
DetailsMessage(opts) ==
  <<"Gateway target: ", buildGatewayConnectionDetails(opts).url,
    "Source: ", buildGatewayConnectionDetails(opts).urlSource>>

\* The close codes and reasons a connection can end with
CloseCodes == {1000, 1006, 1008}
CloseReasons == {"", "pairing required"}

\* reason?.trim() || "no close reason", then the hint of the code
formatCloseError(opts, code, reason) ==
  <<"gateway closed (", code,
    IF code = 1006 THEN " abnormal closure (no close frame)"
    ELSE IF code = 1000 THEN " normal closure" ELSE "",
    "): ", IF reason # "" THEN reason ELSE "no close reason">>
    \o DetailsMessage(opts)

\* formatTimeoutError without the connection details
formatTimeoutError_NoDetails(opts) == <<"gateway timeout after ", TimeoutOf(opts), "ms">>

\* `gateway timeout after ${timeoutMs}ms\n${connectionDetails.message}`
formatTimeoutError(opts) ==
  <<"gateway timeout after ", TimeoutOf(opts), "ms">> \o DetailsMessage(opts)

\* An error callGateway rejects with, or a value it resolves with
GatewayError(kind, message) == [kind |-> kind, message |-> message]

NoGatewayError == GatewayError("none", <<>>)

\* The errors client.request rejects with, and the payloads it resolves with
RequestErrors ==
  {GatewayError("request", <<"agent failed">>), GatewayError("request", <<"gateway not connected">>)}
Payloads == {"payload-1", "payload-2"}

PendingPromise == [state |-> "pending", error |-> NoGatewayError, value |-> "none"]

NoGateway ==
  [phase |-> "idle", opts |-> [remote |-> FALSE, url |-> FALSE, remoteUrl |-> FALSE,
                               timeoutMs |-> NoTimeoutOpt],
   settled |-> FALSE, ignoreClose |-> FALSE, timer |-> "unset", conn |-> "none",
   stops |-> 0, request |-> "none", closes |-> 0, promise |-> PendingPromise,
   settles |-> 0, first |-> "none", closed |-> [code |-> 0, reason |-> "", during |-> "none"],
   elapsed |-> 0, ticks |-> 0]

\* stop leaving the timer armed
stop_KeepTimer(g, err, value) ==
  IF g.settled THEN g
  ELSE [g EXCEPT !.settled = TRUE,
                 !.settles = @ + 1,
                 !.promise = IF err # NoGatewayError
                             THEN [state |-> "rejected", error |-> err, value |-> "none"]
                             ELSE [state |-> "resolved", error |-> NoGatewayError, value |-> value]]

\* stop without the settled test
stop_Unguarded(g, err, value) ==
  [g EXCEPT !.settled = TRUE,
            !.timer = IF @ = "armed" THEN "cleared" ELSE @,
            !.settles = @ + 1,
            !.promise = IF @.state # "pending" THEN @
                        ELSE IF err # NoGatewayError
                        THEN [state |-> "rejected", error |-> err, value |-> "none"]
                        ELSE [state |-> "resolved", error |-> NoGatewayError, value |-> value]]

\* stop(err, value): settles the promise once and clears the timer
stop(g, err, value) ==
  IF g.settled THEN g
  ELSE [g EXCEPT !.settled = TRUE,
                 !.timer = IF @ = "armed" THEN "cleared" ELSE @,
                 !.settles = @ + 1,
                 !.promise = IF err # NoGatewayError
                             THEN [state |-> "rejected", error |-> err, value |-> "none"]
                             ELSE [state |-> "resolved", error |-> NoGatewayError, value |-> value]]

\* client.stop(): the connection is closed; the client may report the close
\* to onClose before it returns (sync) or later
RECURSIVE clientStop(_, _)

\* onClose taking the close code 1000 for a normal end of the call
onClose_NormalOk(g, code, reason, sync) ==
  IF g.settled \/ g.ignoreClose \/ code = 1000 THEN g
  ELSE stop(clientStop([g EXCEPT !.ignoreClose = TRUE], sync),
            GatewayError("closed", formatCloseError(g.opts, code, reason)), "none")

\* onClose(code, reason)
onClose(g, code, reason, sync) ==
  IF g.settled \/ g.ignoreClose THEN g
  ELSE stop(clientStop([g EXCEPT !.ignoreClose = TRUE], sync),
            GatewayError("closed", formatCloseError(g.opts, code, reason)), "none")

clientStop(g, sync) ==
  IF sync /\ g.conn \in {"connecting", "open"}
  THEN onClose([g EXCEPT !.conn = "closed", !.stops = @ + 1, !.closes = @ + 1],
               1000, "", FALSE)
  ELSE [g EXCEPT !.conn = IF @ = "none" THEN @ ELSE "closed", !.stops = @ + 1]

\* What agentCommand, run in this process, returns or throws
LocalResults == {"local-reply"}
LocalErrors == {GatewayError("local", <<"embedded agent failed">>)}

\* The errors agentViaGatewayCommand throws before it calls callGateway
ValidationErrors == {GatewayError("validation", <<"Message (--message) is required">>)}

NoCliOutcome == [kind |-> "none", by |-> "none", value |-> "none", error |-> NoGatewayError]

NoCli ==
  [phase |-> "idle", local |-> FALSE, gatewayCalls |-> 0, localCalls |-> 0,
   failure |-> NoGatewayError, logged |-> <<>>, outcome |-> NoCliOutcome]

-----------------------------------------------------------------------------
(* resolveSession *)

\* opts.sessionId is undefined; sessionStore[sessionKey] is undefined
NoSessionId == "undefined"
NoEntry == [present |-> FALSE, sessionId |-> NoSessionId, fresh |-> FALSE]

\* opts.sessionId
RequestedIds == {NoSessionId, "", " ", "sid-a", " sid-a ", "sid-b"}

\* The entry under the session key: its sessionId, and what
\* evaluateSessionFreshness answers for its updatedAt under the reset policy
Entries ==
  {NoEntry} \cup [present : {TRUE}, sessionId : {NoSessionId, "", "sid-a", "sid-c"},
                  fresh : BOOLEAN]

\* What crypto.randomUUID() returns
Uuids == {"uuid-1", "uuid-2"}

\* A string that is neither undefined nor empty
TruthyId(str) == str # NoSessionId /\ str # ""

\* sessionEntry ? evaluateSessionFreshness(...).fresh : false
FreshOf(entry) == IF entry.present THEN entry.fresh ELSE FALSE

\* opts.sessionId?.trim() || (fresh ? sessionEntry?.sessionId : undefined) || crypto.randomUUID()
SessionIdOf(requested, entry, uuid) ==
  IF requested # NoSessionId /\ TruthyId(Trim(requested)) THEN Trim(requested)
  ELSE IF FreshOf(entry) /\ TruthyId(entry.sessionId) THEN entry.sessionId
  ELSE uuid

\* !fresh && !opts.sessionId
IsNewSessionOf(requested, entry) == ~FreshOf(entry) /\ ~TruthyId(requested)

NoSession ==
  [phase |-> "idle", requested |-> NoSessionId, entry |-> NoEntry, uuid |-> NoSessionId,
   sessionId |-> NoSessionId, isNewSession |-> FALSE]

-----------------------------------------------------------------------------
(* resolveSessionKeyForRequest and resolveSession on the store file *)

Undefined == NoSessionId

\* session.reset.idleMinutes of the configuration, in ms
IdleMs == 60000

\* e[f], undefined when the entry has no field f
Field(e, f) == IF Has(e, f) THEN e[f] ELSE Undefined

SessionEntryOf(sessionId, updatedAt) ==
  Put(Put(EmptyFcn, "sessionId", sessionId), "updatedAt", updatedAt)

\* The entries a store file holds under the key of sender alice
AliceEntries ==
  {SessionEntryOf("sid-a", 0),
   Put(Put(SessionEntryOf("sid-a", 0), "thinkingLevel", "high"), "verboseLevel", "on"),
   Put(SessionEntryOf("sid-a", 0), "thinkingLevel", "bogus")}

\* The stores on disk: every sessionId is stored under one key at most
SessionStores ==
  {EmptyFcn, [k \in {"k2"} |-> SessionEntryOf("sid-b", 0)]}
  \cup {[k \in {"k1"} |-> e] : e \in AliceEntries}
  \cup {[k \in {"k1", "k2"} |-> IF k = "k1" THEN e ELSE SessionEntryOf("sid-b", 0)] :
          e \in AliceEntries}

ResolverFiles ==
  {NoFile} \cup {[exists |-> TRUE, raw |-> JsonStringify(st), mtime |-> 0] : st \in SessionStores}

\* The arguments of resolveSession; scope is cfg.session.scope
ResolveOpts ==
  [sessionKey : {Undefined, " ", "k2"}, agentId : {Undefined, "ops"},
   to : {Undefined, " ", "alice"}, sessionId : {Undefined, "sid-a", "sid-b", "sid-x"},
   scope : {"per-sender", "global"}]

\* The main session key of an agent, undefined without agent id
resolveExplicitAgentSessionKey(agentId) == IF agentId = Undefined THEN Undefined ELSE "ka"

\* The key of a sender under the scope
resolveSessionKey(scope, from) == IF scope = "global" THEN "global" ELSE "k1"

\* fresh: the entry was updated within the idle window
evaluateSessionFreshness(updatedAt, t) == t <= updatedAt + IdleMs

normalizeThinkLevel(raw) == IF raw = "high" THEN "high" ELSE Undefined

normalizeVerboseLevel(raw) == IF raw = "on" THEN "on" ELSE Undefined

\* opts.sessionKey?.trim() || resolveExplicitAgentSessionKey(...)
ExplicitSessionKey(opts) ==
  IF opts.sessionKey # Undefined /\ Trim(opts.sessionKey) # ""
  THEN Trim(opts.sessionKey)
  ELSE resolveExplicitAgentSessionKey(opts.agentId)

\* ctx ? resolveSessionKey(scope, ctx, mainKey) : undefined
DerivedSessionKey(opts) ==
  IF opts.to # Undefined /\ Trim(opts.to) # ""
  THEN resolveSessionKey(opts.scope, opts.to)
  ELSE Undefined

\* The keys whose entry stores the session id
KeysById(sessionStore, sessionId) ==
  {k \in DOMAIN sessionStore : Field(sessionStore[k], "sessionId") = sessionId}

\* resolveSessionKeyForRequest with the lookup by id only when no key was derived
KeyForRequest_DerivedWins(loaded, opts) ==
  LET explicitSessionKey == ExplicitSessionKey(opts)
      sessionStore == loaded.ret.val
      first == IF explicitSessionKey # Undefined THEN explicitSessionKey
               ELSE DerivedSessionKey(opts)
      found == KeysById(sessionStore, opts.sessionId)
      lookup == explicitSessionKey = Undefined /\ TruthyId(opts.sessionId)
                /\ first = Undefined
  IN  [sessionKey |-> IF lookup /\ found # {} THEN CHOOSE k \in found : TRUE ELSE first,
       sessionStore |-> sessionStore, cache |-> loaded.cache]

resolveSessionKeyForRequest_DerivedWins(p, opts) ==
  KeyForRequest_DerivedWins(loadSessionStore(p, FALSE), opts)

\* Lines 87-113 of resolveSessionKeyForRequest, given the loaded store
KeyForRequest(loaded, opts) ==
  LET explicitSessionKey == ExplicitSessionKey(opts)
      sessionStore == loaded.ret.val
      first == IF explicitSessionKey # Undefined THEN explicitSessionKey
               ELSE DerivedSessionKey(opts)
      found == KeysById(sessionStore, opts.sessionId)
      lookup == explicitSessionKey = Undefined /\ TruthyId(opts.sessionId)
                /\ (\/ first = Undefined
                    \/ ~Has(sessionStore, first)
                    \/ Field(sessionStore[first], "sessionId") # opts.sessionId)
  IN  [sessionKey |-> IF lookup /\ found # {} THEN CHOOSE k \in found : TRUE ELSE first,
       sessionStore |-> sessionStore, cache |-> loaded.cache]

\* Line 97: the store is loaded through the cache
resolveSessionKeyForRequest(p, opts) == KeyForRequest(loadSessionStore(p, FALSE), opts)

\* resolveSession with the persisted levels taken from a stale entry too
SessionOf_KeepStale(r, opts, uuid) ==
  LET present == r.sessionKey # Undefined /\ Has(r.sessionStore, r.sessionKey)
      sessionEntry == IF present THEN r.sessionStore[r.sessionKey] ELSE EmptyFcn
      fresh == present /\ evaluateSessionFreshness(Field(sessionEntry, "updatedAt"), now)
      entry == [present |-> present, sessionId |-> Field(sessionEntry, "sessionId"),
                fresh |-> fresh]
  IN  [sessionId |-> SessionIdOf(opts.sessionId, entry, uuid),
       sessionKey |-> r.sessionKey,
       hasEntry |-> present,
       sessionEntry |-> sessionEntry,
       sessionStore |-> r.sessionStore,
       isNewSession |-> IsNewSessionOf(opts.sessionId, entry),
       fresh |-> fresh,
       persistedThinking |-> normalizeThinkLevel(Field(sessionEntry, "thinkingLevel")),
       persistedVerbose |-> normalizeVerboseLevel(Field(sessionEntry, "verboseLevel")),
       cache |-> r.cache]

resolveSession_KeepStale(p, opts, uuid) ==
  SessionOf_KeepStale(resolveSessionKeyForRequest(p, opts), opts, uuid)

\* Lines 194-258 of resolveSession, given the key and the store: what one
\* call returns, `fresh` (a local of the call) and the cache entry it leaves
SessionOf(r, opts, uuid) ==
  LET present == r.sessionKey # Undefined /\ Has(r.sessionStore, r.sessionKey)
      sessionEntry == IF present THEN r.sessionStore[r.sessionKey] ELSE EmptyFcn
      fresh == present /\ evaluateSessionFreshness(Field(sessionEntry, "updatedAt"), now)
      entry == [present |-> present, sessionId |-> Field(sessionEntry, "sessionId"),
                fresh |-> fresh]
  IN  [sessionId |-> SessionIdOf(opts.sessionId, entry, uuid),
       sessionKey |-> r.sessionKey,
       hasEntry |-> present,
       sessionEntry |-> sessionEntry,
       sessionStore |-> r.sessionStore,
       isNewSession |-> IsNewSessionOf(opts.sessionId, entry),
       fresh |-> fresh,
       persistedThinking |->
         IF fresh /\ TruthyId(Field(sessionEntry, "thinkingLevel"))
         THEN normalizeThinkLevel(sessionEntry["thinkingLevel"]) ELSE Undefined,
       persistedVerbose |->
         IF fresh /\ TruthyId(Field(sessionEntry, "verboseLevel"))
         THEN normalizeVerboseLevel(sessionEntry["verboseLevel"]) ELSE Undefined,
       cache |-> r.cache]

\* Lines 154-193: the key and the store come from resolveSessionKeyForRequest
resolveSession(p, opts, uuid) == SessionOf(resolveSessionKeyForRequest(p, opts), opts, uuid)

NoResolveOpts ==
  [sessionKey |-> Undefined, agentId |-> Undefined, to |-> Undefined,
   sessionId |-> Undefined, scope |-> "per-sender"]

NoResolution ==
  [phase |-> "idle", opts |-> NoResolveOpts,
   ret |-> [sessionId |-> Undefined, sessionKey |-> Undefined, hasEntry |-> FALSE,
            sessionEntry |-> EmptyFcn, sessionStore |-> EmptyFcn, isNewSession |-> FALSE,
            fresh |-> FALSE, persistedThinking |-> Undefined,
            persistedVerbose |-> Undefined]]

-----------------------------------------------------------------------------
(* agentCommand: session handling *)

\* The entries a store file holds for agentCommand: with a skills snapshot,
\* and with a stored model override
AgentEntries ==
  LET base == Put(SessionEntryOf("sid-a", 0), "skillsSnapshot", "snap")
  IN  {SessionEntryOf("sid-a", 0),
       base,
       Put(Put(base, "providerOverride", "openai"), "modelOverride", "gpt"),
       Put(base, "modelOverride", "opus"),
       Put(Put(base, "providerOverride", "claude-cli"), "modelOverride", "sonnet"),
       Put(Put(base, "providerOverride", "openai"), "modelOverride", " ")}

AgentStores ==
  {EmptyFcn, [k \in {"k2"} |-> SessionEntryOf("sid-b", 0)]}
  \cup {[k \in {"k1"} |-> e] : e \in AgentEntries}

AgentFiles ==
  {NoFile} \cup {[exists |-> TRUE, raw |-> JsonStringify(st), mtime |-> 0] : st \in AgentStores}

\* allowedModelKeys as buildAllowedModelSet answers: empty without allowlist
AllowedKeySets ==
  {{}, {modelKey(DEFAULT_PROVIDER, DEFAULT_MODEL)},
   {modelKey(DEFAULT_PROVIDER, DEFAULT_MODEL), modelKey("openai", "gpt")}}

\* opts of agentCommand: the sender, --session-id and the /think override
AgentOpts == [to : {"alice"}, sessionId : {Undefined}, thinkOverride : {Undefined, "low"}]

ResolveOptsOf(opts) ==
  [sessionKey |-> Undefined, agentId |-> Undefined, to |-> opts.to,
   sessionId |-> opts.sessionId, scope |-> "per-sender"]

\* crypto.randomUUID(): the first identifier that is not among the used ones
AgentUuids == <<"uuid-1", "uuid-2", "uuid-3">>
FreshUuid(used) ==
  AgentUuids[CHOOSE i \in DOMAIN AgentUuids :
               /\ AgentUuids[i] \notin used
               /\ \A j \in 1 .. (i - 1) : AgentUuids[j] \in used]

\* The session ids a store holds
IdsOf(st) == {Field(st[k], "sessionId") : k \in DOMAIN st}

isCliProvider(provider) == provider = "claude-cli"

\* selection.isDefault: both overrides are removed; updated tells whether
\* the entry changed, and a changed entry gets a new updatedAt
applyModelOverrideToSessionEntry(entry, t) ==
  LET updated == Has(entry, "providerOverride") \/ Has(entry, "modelOverride")
      cleared == Del(Del(entry, "providerOverride"), "modelOverride")
  IN  [entry |-> IF updated THEN Put(cleared, "updatedAt", t) ELSE entry,
       updated |-> updated]

\* updateSessionStore(storePath, store => { store[key] = entry }) that
\* leaves the cache entry of the process in place
updateSessionStore_KeepCache(p, key, entry) ==
  LET loaded == loadSessionStore(p, TRUE)
  IN  [file |-> WriteFile(normalizeSessionStore(Put(loaded.ret.val, key, entry))),
       cache |-> loaded.cache]

\* updateSessionStore(storePath, store => { store[key] = entry }) as one
\* step: the store is read under the lock past the cache, the entry is
\* assigned, and saveSessionStoreUnlocked drops the cache entry and writes
updateSessionStore(p, key, entry) ==
  LET loaded == loadSessionStore(p, TRUE)
  IN  [file |-> WriteFile(normalizeSessionStore(Put(loaded.ret.val, key, entry))),
       cache |-> NoCache]

NoCall ==
  [sessionKey |-> Undefined, hadEntry |-> FALSE, requested |-> Undefined,
   sessionId |-> Undefined, isNewSession |-> FALSE, at |-> 0, persistedAt |-> NoMtime]

NoAgent ==
  [phase |-> "idle", opts |-> [to |-> Undefined, sessionId |-> Undefined,
                              thinkOverride |-> Undefined],
   allowed |-> {}, sessionId |-> Undefined, sessionKey |-> Undefined,
   hasEntry |-> FALSE, sessionEntry |-> EmptyFcn, resolvedEntry |-> EmptyFcn,
   sessionStore |-> EmptyFcn,
   isNewSession |-> FALSE, provider |-> Undefined, model |-> Undefined,
   wrote |-> {}, persisted |-> EmptyFcn, foreign |-> {}, calls |-> <<>>,
   cliCandidates |-> {}, lifecycleEnded |-> FALSE, events |-> <<>>, emittedBy |-> 0]

-----------------------------------------------------------------------------
(* The callbacks and arguments the callers pass *)

\* updateSessionStore's mutator: add 1 to the counter field of session k1
IncCounter(s) ==
  LET e == IF Has(s, "k1") THEN s["k1"] ELSE EmptyFcn
      n == IF Has(e, "counter") THEN e["counter"] ELSE 0
  IN  Put(s, "k1", Put(e, "counter", n + 1))

\* updateSessionStoreEntry's update callback: a patch, or null
EntryPatch == Put(EmptyFcn, "thinkingLevel", "high")

\* updateLastRoute's patch for channel ch
RoutePatch(existing, ch) ==
  LET prev == IF Has(existing, "updatedAt") THEN existing["updatedAt"] ELSE 0
      base == Put(EmptyFcn, "updatedAt", IF prev > now THEN prev ELSE now)
  IN  Put(Put(base, "deliveryContext", ch), "lastChannel", ch)

OpChoices ==
  {[kind |-> "update", key |-> "k1", arg |-> "inc"],
   [kind |-> "save", key |-> "k2", arg |-> "store"]}
  \cup [kind : {"entry"}, key : Keys, arg : {"patch", "null"}]
  \cup [kind : {"route"}, key : Keys, arg : {"slack"}]

-----------------------------------------------------------------------------
Init ==
  /\ now = 0
  /\ ticks = 0
  /\ lock = NoLock
  /\ file \in InitFiles
  /\ cache = [p \in Procs |-> NoCache]
  /\ pc = [t \in Tasks |-> "idle"]
  /\ op = [t \in Tasks |-> NoOp]
  /\ startedAt = [t \in Tasks |-> 0]
  /\ nowL = [t \in Tasks |-> 0]
  /\ wakeAt = [t \in Tasks |-> 0]
  /\ store = [t \in Tasks |-> EmptyFcn]
  /\ result = [t \in Tasks |-> "none"]
  /\ hist = [t \in Tasks |-> {}]
  /\ held = [p \in Procs |-> <<>>]
  /\ act = NoAct
  /\ fallback = NoFallback
  /\ resolved = NoResolved
  /\ gateway = NoGateway
  /\ cli = NoCli
  /\ session = NoSession
  /\ resolution = NoResolution
  /\ agent = NoAgent

-----------------------------------------------------------------------------
(* withSessionStoreLock: acquisition *)

BodyPcs == {"read", "save", "rename"}

\* A caller starts one of the store operations: startedAt = Date.now(), mkdir
Start(t, o) ==
  /\ pc[t] = "idle"
  /\ op' = [op EXCEPT ![t] = o]
  /\ startedAt' = [startedAt EXCEPT ![t] = now]
  /\ pc' = [pc EXCEPT ![t] = "open"]
  /\ UNCHANGED <<now, ticks, lock, file, cache, nowL, wakeAt, store, result, hist, held, act, nonStoreVars>>

\* AfterEexist without the deadline test of lines 756-759
AfterEexist_NoDeadline(t) == "stat"

\* The position after open(lockPath, "wx") has failed with EEXIST
AfterEexist(t) ==
  IF now - startedAt[t] > timeoutMs THEN "timeout" ELSE "stat"

\* fs.promises.open(lockPath, "wx"): creates the lock, or fails with EEXIST
OpenLock(t) ==
  /\ pc[t] = "open"
  /\ IF ~lock.present
     THEN /\ lock' = [present |-> TRUE, mtime |-> now, owner |-> t]
          /\ pc' = [pc EXCEPT ![t] = IF op[t].kind = "save" THEN "save" ELSE "read"]
          /\ hist' = [hist EXCEPT ![t] = @ \cup {"body"}]
          /\ UNCHANGED <<nowL, result>>
     ELSE /\ pc' = [pc EXCEPT ![t] = AfterEexist(t)]
          /\ nowL' = [nowL EXCEPT ![t] = IF AfterEexist(t) = "stat" THEN now ELSE 0]
          /\ result' = [result EXCEPT ![t] = IF AfterEexist(t) = "timeout" THEN "timeout" ELSE @]
          /\ UNCHANGED <<lock, hist>>
  /\ UNCHANGED <<now, ticks, file, cache, op, startedAt, wakeAt, store, held, act, nonStoreVars>>

\* Whether the lock whose mtime is m is evicted by a waiter whose `now` is n
IsStale(n, m) == n - m > staleMs

\* fs.promises.stat(lockPath) and the age test
StatLock(t) ==
  /\ pc[t] = "stat"
  /\ IF lock.present /\ IsStale(nowL[t], lock.mtime)
     THEN /\ pc' = [pc EXCEPT ![t] = "unlink"]
          /\ UNCHANGED wakeAt
     ELSE /\ pc' = [pc EXCEPT ![t] = "sleep"]
          /\ wakeAt' = [wakeAt EXCEPT ![t] = now + pollIntervalMs]
  /\ nowL' = [nowL EXCEPT ![t] = 0]
  /\ UNCHANGED <<now, ticks, lock, file, cache, op, startedAt, store, result, hist, held, act, nonStoreVars>>

\* EvictLock without the unlink of line 766: the waiter only sleeps
EvictLock_NoUnlink(t) ==
  /\ pc[t] = "unlink"
  /\ pc' = [pc EXCEPT ![t] = "sleep"]
  /\ wakeAt' = [wakeAt EXCEPT ![t] = now + pollIntervalMs]
  /\ UNCHANGED <<now, ticks, lock, file, cache, op, startedAt, nowL, store, result, hist, held, act, nonStoreVars>>

\* fs.promises.unlink(lockPath) of the lock found stale; a failure is ignored
\* and the waiter sleeps
EvictLock(t) ==
  /\ pc[t] = "unlink"
  /\ IF lock.present
     THEN /\ lock' = NoLock
          /\ pc' = [pc EXCEPT ![t] = "open"]
          /\ UNCHANGED wakeAt
     ELSE /\ pc' = [pc EXCEPT ![t] = "sleep"]
          /\ wakeAt' = [wakeAt EXCEPT ![t] = now + pollIntervalMs]
          /\ UNCHANGED lock
  /\ UNCHANGED <<now, ticks, file, cache, op, startedAt, nowL, store, result, hist, held, act, nonStoreVars>>

\* setTimeout(r, pollIntervalMs) fires
Wake(t) ==
  /\ pc[t] = "sleep"
  /\ now >= wakeAt[t]
  /\ pc' = [pc EXCEPT ![t] = "open"]
  /\ wakeAt' = [wakeAt EXCEPT ![t] = 0]
  /\ UNCHANGED <<now, ticks, lock, file, cache, op, startedAt, nowL, store, result, hist, held, act, nonStoreVars>>

-----------------------------------------------------------------------------
(* The transaction bodies *)

\* updateSessionStoreRead without the skipCache of line 701
updateSessionStoreRead_Cached(t) ==
  LET loaded == loadSessionStore(ProcOf(t), FALSE)
  IN  /\ store' = [store EXCEPT ![t] = IncCounter(loaded.ret.val)]
      /\ cache' = [cache EXCEPT ![ProcOf(t)] = loaded.cache]
      /\ hist' = [hist EXCEPT ![t] = @ \cup {"cb"}]
      /\ pc' = [pc EXCEPT ![t] = "save"]
      /\ UNCHANGED result

\* updateSessionStore: load with skipCache, run the mutator
updateSessionStoreRead(t) ==
  LET loaded == loadSessionStore(ProcOf(t), TRUE)
  IN  /\ store' = [store EXCEPT ![t] = IncCounter(loaded.ret.val)]
      /\ cache' = [cache EXCEPT ![ProcOf(t)] = loaded.cache]
      /\ hist' = [hist EXCEPT ![t] = @ \cup {"cb"}]
      /\ pc' = [pc EXCEPT ![t] = "save"]
      /\ UNCHANGED result

\* updateSessionStoreEntryRead without the early return of line 793: an
\* absent key is treated as an empty entry, as updateLastRoute does
updateSessionStoreEntryRead_Create(t) ==
  LET loaded == loadSessionStore(ProcOf(t), FALSE)
      s == loaded.ret.val
      key == op[t].key
      existing == IF Has(s, key) THEN s[key] ELSE EmptyFcn
  IN  /\ cache' = [cache EXCEPT ![ProcOf(t)] = loaded.cache]
      /\ IF op[t].arg = "null"
         THEN /\ result' = [result EXCEPT ![t] = "existing"]
              /\ hist' = [hist EXCEPT ![t] = @ \cup {"cb"}]
              /\ pc' = [pc EXCEPT ![t] = "release"]
              /\ UNCHANGED store
         ELSE /\ store' = [store EXCEPT ![t] = Put(s, key, mergeSessionEntry(existing, EntryPatch))]
              /\ hist' = [hist EXCEPT ![t] = @ \cup {"cb"}]
              /\ pc' = [pc EXCEPT ![t] = "save"]
              /\ UNCHANGED result

\* updateSessionStoreEntry: load, look the key up, run the update callback
updateSessionStoreEntryRead(t) ==
  LET loaded == loadSessionStore(ProcOf(t), FALSE)
      s == loaded.ret.val
      key == op[t].key
  IN  /\ cache' = [cache EXCEPT ![ProcOf(t)] = loaded.cache]
      /\ IF ~Has(s, key)
         THEN /\ result' = [result EXCEPT ![t] = "null"]
              /\ pc' = [pc EXCEPT ![t] = "release"]
              /\ UNCHANGED <<store, hist>>
         ELSE IF op[t].arg = "null"
         THEN /\ result' = [result EXCEPT ![t] = "existing"]
              /\ hist' = [hist EXCEPT ![t] = @ \cup {"cb"}]
              /\ pc' = [pc EXCEPT ![t] = "release"]
              /\ UNCHANGED store
         ELSE /\ store' = [store EXCEPT ![t] = Put(s, key, mergeSessionEntry(s[key], EntryPatch))]
              /\ hist' = [hist EXCEPT ![t] = @ \cup {"cb"}]
              /\ pc' = [pc EXCEPT ![t] = "save"]
              /\ UNCHANGED result

\* updateLastRoute: load, merge the route onto the entry (created if absent)
updateLastRouteRead(t) ==
  LET loaded == loadSessionStore(ProcOf(t), FALSE)
      s == loaded.ret.val
      key == op[t].key
      existing == IF Has(s, key) THEN s[key] ELSE EmptyFcn
  IN  /\ cache' = [cache EXCEPT ![ProcOf(t)] = loaded.cache]
      /\ store' = [store EXCEPT ![t] =
                     Put(s, key, mergeSessionEntry(existing, RoutePatch(existing, op[t].arg)))]
      /\ pc' = [pc EXCEPT ![t] = "save"]
      /\ UNCHANGED <<result, hist>>

\* The first step of the body passed to withSessionStoreLock
BodyRead(t) ==
  /\ pc[t] = "read"
  /\ CASE op[t].kind = "update" -> updateSessionStoreRead(t)
       [] op[t].kind = "entry" -> updateSessionStoreEntryRead(t)
       [] OTHER -> updateLastRouteRead(t)
  /\ UNCHANGED <<now, ticks, lock, file, op, startedAt, nowL, wakeAt, held, act, nonStoreVars>>

\* saveSessionStoreUnlocked up to its first await: invalidate, normalize
SaveBegin(t) ==
  /\ pc[t] = "save"
  /\ cache' = [cache EXCEPT ![ProcOf(t)] = NoCache]
  /\ store' = [store EXCEPT ![t] =
                 normalizeSessionStore(IF op[t].kind = "save" THEN SaveInput ELSE @)]
  /\ pc' = [pc EXCEPT ![t] = "rename"]
  /\ UNCHANGED <<now, ticks, lock, file, op, startedAt, nowL, wakeAt, result, hist, held, act, nonStoreVars>>

\* saveSessionStoreUnlocked: write the temp file and rename it over the store
SaveRename(t) ==
  /\ pc[t] = "rename"
  /\ file' = WriteFile(store[t])
  /\ hist' = [hist EXCEPT ![t] = @ \cup {"write"}]
  /\ result' = [result EXCEPT ![t] = "ok"]
  /\ pc' = [pc EXCEPT ![t] = "release"]
  /\ UNCHANGED <<now, ticks, lock, cache, op, startedAt, nowL, wakeAt, store, held, act, nonStoreVars>>

\* ReleaseLock as if the unlink followed fn() inside the try: a body that
\* threw leaves the lock file
ReleaseLock_AfterSuccess(t) ==
  /\ pc[t] = "release"
  /\ lock' = IF result[t] = "mutator-error" THEN lock ELSE NoLock
  /\ store' = [store EXCEPT ![t] = EmptyFcn]
  /\ pc' = [pc EXCEPT ![t] = "done"]
  /\ UNCHANGED <<now, ticks, file, cache, op, startedAt, nowL, wakeAt, result, hist, held, act, nonStoreVars>>

\* withSessionStoreLock's finally: unlink(lockPath), errors ignored
ReleaseLock(t) ==
  /\ pc[t] = "release"
  /\ lock' = NoLock
  /\ store' = [store EXCEPT ![t] = EmptyFcn]
  /\ pc' = [pc EXCEPT ![t] = "done"]
  /\ UNCHANGED <<now, ticks, file, cache, op, startedAt, nowL, wakeAt, result, hist, held, act, nonStoreVars>>

-----------------------------------------------------------------------------
(* The environment *)

\* The process of a task dies inside the body: its lock file stays
Crash(t) ==
  /\ pc[t] \in BodyPcs
  /\ Cardinality({u \in Tasks : pc[u] = "crashed"}) < MaxCrashes
  /\ pc' = [pc EXCEPT ![t] = "crashed"]
  /\ store' = [store EXCEPT ![t] = EmptyFcn]
  /\ UNCHANGED <<now, ticks, lock, file, cache, op, startedAt, nowL, wakeAt, result, hist, held, act, nonStoreVars>>

\* Time passes: the clock advances by d, at most `bound` times
Tick(d, bound) ==
  /\ ticks < bound
  /\ now' = now + d
  /\ ticks' = ticks + 1
  /\ UNCHANGED <<lock, file, cache, pc, op, startedAt, nowL, wakeAt, store, result, hist, held, act, nonStoreVars>>

\* readSessionUpdatedAt: a load outside any lock whose snapshot is dropped
readSessionUpdatedAt(p) ==
  /\ cache' = [cache EXCEPT ![p] = loadSessionStore(p, FALSE).cache]
  /\ UNCHANGED <<now, ticks, lock, file, pc, op, startedAt, nowL, wakeAt, store, result, hist, held, act, nonStoreVars>>

-----------------------------------------------------------------------------
(* Spec: the lock protocol.  Three tasks run updateSessionStore with the   *)
(* +1 mutator; a process may die inside its body; the clock advances by a  *)
(* poll interval or by the staleness threshold.                            *)

IncOp == [kind |-> "update", key |-> "k1", arg |-> "inc"]

\* A step of task t inside withSessionStoreLock
TaskStep(t) ==
  \/ OpenLock(t)
  \/ StatLock(t)
  \/ EvictLock(t)
  \/ Wake(t)
  \/ BodyRead(t)
  \/ SaveBegin(t)
  \/ SaveRename(t)
  \/ ReleaseLock(t)

Next ==
  \/ \E t \in Tasks : Start(t, IncOp)
  \/ \E t \in Tasks : OpenLock(t)
  \/ \E t \in Tasks : StatLock(t)
  \/ \E t \in Tasks : EvictLock(t)
  \/ \E t \in Tasks : Wake(t)
  \/ \E t \in Tasks : BodyRead(t)
  \/ \E t \in Tasks : SaveBegin(t)
  \/ \E t \in Tasks : SaveRename(t)
  \/ \E t \in Tasks : ReleaseLock(t)
  \/ \E t \in Tasks : Crash(t)
  \/ \E d \in TickSteps : Tick(d, MaxTicks)

Spec == Init /\ [][Next]_vars

-----------------------------------------------------------------------------
(* RecoverySpec: two tasks, with the fairness of the event loop: a task    *)
(* whose awaited file operation or timer has completed runs its next step. *)

RecoveryTasks == {"t1", "t2"}

\* The clock advances to just past the staleness threshold or the deadline
RecoveryTickSteps == {staleMs + pollIntervalMs, timeoutMs + pollIntervalMs}

RecoveryNext ==
  \/ \E t \in RecoveryTasks : Start(t, IncOp)
  \/ \E t \in RecoveryTasks : TaskStep(t)
  \/ \E t \in RecoveryTasks : Crash(t)
  \/ \E d \in RecoveryTickSteps : Tick(d, MaxRecoveryTicks)

RecoverySpec ==
  Init /\ [][RecoveryNext]_vars /\ \A t \in RecoveryTasks : WF_vars(TaskStep(t))

-----------------------------------------------------------------------------
(* TxnSpec: the transactions and the read cache.  Two tasks in two         *)
(* processes run any of the store operations while each process also loads *)
(* the store outside the lock; the clock advances by poll intervals, so no *)
(* lock turns stale.                                                       *)

TxnTasks == {"t1", "t2"}

TxnNext ==
  \/ \E t \in TxnTasks : \E o \in OpChoices : Start(t, o)
  \/ \E t \in TxnTasks : OpenLock(t)
  \/ \E t \in TxnTasks : StatLock(t)
  \/ \E t \in TxnTasks : Wake(t)
  \/ \E t \in TxnTasks : BodyRead(t)
  \/ \E t \in TxnTasks : SaveBegin(t)
  \/ \E t \in TxnTasks : SaveRename(t)
  \/ \E t \in TxnTasks : ReleaseLock(t)
  \/ Tick(pollIntervalMs, MaxTxnTicks)
  \/ \E p \in Procs : readSessionUpdatedAt(p)

TxnSpec == Init /\ [][TxnNext]_vars

-----------------------------------------------------------------------------
(* CacheSpec: one process calls loadSessionStore, keeps and mutates the    *)
(* snapshots it got, while another process replaces the store file and the *)
(* clock advances by a poll interval or by the cache's time to live.       *)

CacheProcs == {"p1"}
CacheTickSteps == {pollIntervalMs, DEFAULT_SESSION_STORE_TTL_MS}
WriteInputs == {SaveInput, IncCounter(MigrateStore(Store0))}
SnapshotEdits == {EmptyFcn, SaveInput}

\* A caller calls loadSessionStore(storePath, {skipCache}) and keeps the result
Load(p, skipCache) ==
  LET loaded == loadSessionStore(p, skipCache)
  IN  /\ Len(held[p]) < MaxHeld
      /\ held' = [held EXCEPT ![p] = Append(@, loaded.ret)]
      /\ cache' = [cache EXCEPT ![p] = loaded.cache]
      /\ act' = [kind |-> "load", skip |-> skipCache]
      /\ UNCHANGED <<now, ticks, lock, file, pc, op, startedAt, nowL, wakeAt, store, result, hist, nonStoreVars>>

\* The object o of process p after the object with identity id was given value v
Mutated(o, id, v) == IF o.id = id THEN [o EXCEPT !.val = v] ELSE o

\* The caller changes the snapshot it holds at position i: every reference to
\* the same object sees the change
MutateSnapshot(p, i, v) ==
  /\ i \in DOMAIN held[p]
  /\ held[p][i].val # v
  /\ held' = [held EXCEPT ![p] = [j \in DOMAIN @ |-> Mutated(@[j], held[p][i].id, v)]]
  /\ cache' = [cache EXCEPT ![p] =
                 IF @.present THEN [@ EXCEPT !.store = Mutated(cache[p].store, held[p][i].id, v)] ELSE @]
  /\ act' = [kind |-> "mutate", skip |-> FALSE]
  /\ UNCHANGED <<now, ticks, lock, file, pc, op, startedAt, nowL, wakeAt, store, result, hist, nonStoreVars>>

\* The caller lets go of its oldest snapshot
DropSnapshot(p) ==
  /\ held[p] # <<>>
  /\ held' = [held EXCEPT ![p] = Tail(@)]
  /\ act' = [kind |-> "drop", skip |-> FALSE]
  /\ UNCHANGED <<now, ticks, lock, file, cache, pc, op, startedAt, nowL, wakeAt, store, result, hist, nonStoreVars>>

\* Another process renames a new store over the file (saveSessionStoreUnlocked)
ExternalWrite(s) ==
  /\ file' = WriteFile(s)
  /\ file' # file
  /\ act' = [kind |-> "write", skip |-> FALSE]
  /\ UNCHANGED <<now, ticks, lock, cache, pc, op, startedAt, nowL, wakeAt, store, result, hist, held, nonStoreVars>>

CacheNext ==
  \/ \E p \in CacheProcs : \E skipCache \in BOOLEAN : Load(p, skipCache)
  \/ \E p \in CacheProcs : \E i \in 1 .. MaxHeld : \E v \in SnapshotEdits : MutateSnapshot(p, i, v)
  \/ \E p \in CacheProcs : DropSnapshot(p)
  \/ \E s \in WriteInputs : ExternalWrite(s)
  \/ \E d \in CacheTickSteps : Tick(d, MaxCacheTicks)

CacheSpec == Init /\ [][CacheNext]_vars

-----------------------------------------------------------------------------
(* The lock protocol: properties checked under Spec *)

\* What loadSessionStore reads from the store file as it is now
FreshFromDisk == MigrateStore(ParseStoreFile(file))

\* The counter field persisted for session k1 (0 when there is none)
PersistedCounter ==
  IF Has(FreshFromDisk, "k1") /\ Has(FreshFromDisk["k1"], "counter")
  THEN FreshFromDisk["k1"]["counter"] ELSE 0

\* The tasks that are executing the body passed to withSessionStoreLock
InBody == {t \in Tasks : pc[t] \in BodyPcs}

\* C1: no lost update.  Once every one of the N tasks has returned from its
\* updateSessionStore call with the +1 mutator, the persisted counter is its
\* initial value, 0, plus N.
C1_NoLostUpdate ==
  (\A t \in Tasks : pc[t] = "done") => PersistedCounter = Cardinality(Tasks)

\* C2: mutual exclusion.  In every reachable state at most one task is
\* executing the body passed to withSessionStoreLock.
C2_MutualExclusion == Cardinality(InBody) <= 1

\* C4: lock timeout.  A call whose open fails with EEXIST when more than
\* timeoutMs have elapsed since it started throws the timeout error there,
\* and one with less elapsed does not; the call that threw stays failed, and
\* it has run neither its body nor a write of the store.
C4_Timeout ==
  /\ [][\A t \in Tasks :
          (pc[t] = "open" /\ pc'[t] # "open" /\ lock.present)
            => IF now - startedAt[t] > timeoutMs
               THEN pc'[t] = "timeout" /\ result'[t] = "timeout" /\ lock' = lock
               ELSE pc'[t] = "stat" /\ result'[t] = result[t]]_vars
  /\ [][\A t \in Tasks : pc[t] = "timeout" => pc'[t] = "timeout"]_vars
  /\ [](\A t \in Tasks :
          (pc[t] = "timeout" \/ result[t] = "timeout")
            => /\ pc[t] = "timeout" /\ result[t] = "timeout"
               /\ hist[t] = {}
               /\ now - startedAt[t] > timeoutMs)

\* C4 happens: a call has timed out on a lock that is present and not stale,
\* while its holder is still in its body
C4_Witness ==
  \E t \in Tasks :
    /\ pc[t] = "timeout"
    /\ lock.present /\ ~IsStale(now, lock.mtime)
    /\ lock.owner # t /\ pc[lock.owner] \in BodyPcs

\* C8: every write of the store file is made by a task that holds the lock:
\* the lock file exists and is the one this task created.
C8_WritesHoldLock ==
  [][file' # file
       => \E t \in Tasks : /\ pc[t] = "rename" /\ pc'[t] = "release"
                           /\ lock.present /\ lock.owner = t]_vars

-----------------------------------------------------------------------------
(* Stale-lock recovery: properties checked under RecoverySpec *)

\* The lock file is there and its creator has crashed: nobody will unlink it
\* on release
OrphanLock == lock.present /\ lock.owner # NoTask /\ pc[lock.owner] = "crashed"

\* Task t holds the lock it created and is executing its body
RunsBody(t) == pc[t] \in BodyPcs /\ lock.present /\ lock.owner = t

\* C3 as stated: a writer that called withSessionStoreLock when the orphaned
\* lock was already older than staleMs does not throw the timeout error.
C3_NoTimeoutOnStaleLock ==
  [][\A t \in RecoveryTasks :
       (/\ pc[t] = "open"
        /\ OrphanLock
        /\ IsStale(startedAt[t], lock.mtime))
         => pc'[t] # "timeout"]_vars

\* C3, amended: a writer whose stat finds the orphaned lock older than staleMs
\* (its EEXIST check came within timeoutMs of the start of the call, and no
\* other writer contends) deletes the lock, acquires it and runs its body.
C3_StaleLockRecovery ==
  \A t \in RecoveryTasks :
    (pc[t] = "stat" /\ OrphanLock /\ IsStale(nowL[t], lock.mtime)) ~> RunsBody(t)

\* C3 happens: a writer runs its body under its own lock, created after the
\* lock of a crashed task had turned stale
C3_Witness ==
  \E t, u \in RecoveryTasks :
    /\ pc[u] = "crashed" /\ "body" \in hist[u]
    /\ RunsBody(t) /\ result[t] = "none"
    /\ lock.mtime > staleMs

-----------------------------------------------------------------------------
(* The transactions: properties checked under TxnSpec *)

\* The store that task t's body gets from loadSessionStore(storePath)
LoadedUnderLock(t) == loadSessionStore(ProcOf(t), FALSE).ret.val

\* Process p holds a cache entry that passes the validity test although the
\* file has other content
StaleCache(p) ==
  /\ cache[p].present
  /\ isSessionStoreCacheValid(cache[p])
  /\ cache[p].mtimeMs = getFileMtimeMs(file)
  /\ cache[p].store.val # FreshFromDisk

C6_OtherKeysKept ==
  [][\A t \in TxnTasks :
       (pc[t] = "rename" /\ pc'[t] = "release" /\ op[t].kind \in {"entry", "route"})
         => \A k \in DOMAIN FreshFromDisk :
              /\ k \in DOMAIN store[t]
              /\ k # op[t].key
                   => store[t][k] = normalizeSessionEntryDelivery(FreshFromDisk[k])]_vars

-----------------------------------------------------------------------------
(* The read cache: properties checked under CacheSpec *)

\* The objects process p can reach: the store in its cache entry and the
\* snapshots its callers hold
CacheObjs(p) == IF cache[p].present THEN {cache[p].store.id} ELSE {}
Reachable(p) == Len(held[p]) + Cardinality(CacheObjs(p))

\* The snapshot the last call of loadSessionStore in process p returned
Returned(h) == h[Len(h)]

\* C9: snapshot independence.  No snapshot a caller holds is the object in the
\* cache or the object of another snapshot, and a loadSessionStore that has
\* just returned, with the file as it was when the cache entry was filled
\* (or with no cache entry), has returned the file's content, whatever the
\* callers did to the snapshots they hold.
C9_SnapshotIndependence ==
  \A p \in CacheProcs :
    /\ Cardinality(HeldIds(p) \cup CacheObjs(p)) = Reachable(p)
    /\ (act.kind = "load" /\ (cache[p].present => cache[p].src = file))
         => Returned(held[p]).val = FreshFromDisk

\* C9 happens: a load answered from the cache has returned the file's content
\* although a snapshot returned earlier was changed by its caller
C9_Witness ==
  \E p \in CacheProcs :
    /\ act.kind = "load" /\ ~act.skip
    /\ Len(held[p]) = 2
    /\ cache[p].present /\ cache[p].src = file /\ cache[p].loadedAt < now
    /\ held[p][1].val # FreshFromDisk
    /\ held[p][2].val = FreshFromDisk

\* C10: a call of loadSessionStore (without skipCache) returns the cached
\* store and keeps the entry if there is an entry, now - loadedAt <= ttl and
\* the file's mtime is the entry's; in every other case it returns what it
\* reads from the file and replaces the entry by one filled from the file.
C10_CacheValidity ==
  [][\A p \in CacheProcs :
       (Len(held'[p]) = Len(held[p]) + 1 /\ ~act'.skip)
         => IF /\ cache[p].present
               /\ now - cache[p].loadedAt <= DEFAULT_SESSION_STORE_TTL_MS
               /\ getFileMtimeMs(file) = cache[p].mtimeMs
            THEN /\ Returned(held'[p]).val = cache[p].store.val
                 /\ cache'[p] = cache[p]
            ELSE /\ Returned(held'[p]).val = FreshFromDisk
                 /\ cache'[p].present
                 /\ cache'[p].store.val = FreshFromDisk
                 /\ cache'[p].loadedAt = now
                 /\ cache'[p].mtimeMs = getFileMtimeMs(file)]_vars

\* C10 happens: a load was answered from an entry exactly ttl old, and so
\* returned the cached store although the file has other content
C10_Witness ==
  \E p \in CacheProcs :
    /\ act.kind = "load" /\ ~act.skip
    /\ cache[p].present
    /\ now - cache[p].loadedAt = DEFAULT_SESSION_STORE_TTL_MS
    /\ cache[p].src # file
    /\ Returned(held[p]).val = cache[p].store.val
    /\ Returned(held[p]).val # FreshFromDisk

-----------------------------------------------------------------------------
(* SaveSpec: one process.  Two of its tasks run saveSessionStore or         *)
(* updateSessionStore while other code of the process loads the store, at  *)
(* any point between their steps.                                          *)

SaveTasks == {t \in Tasks : ProcOf(t) = "p1"}
SaveOps == {o \in OpChoices : o.kind \in {"save", "update"}}

SaveNext ==
  \/ \E t \in SaveTasks : \E o \in SaveOps : Start(t, o)
  \/ \E t \in SaveTasks : OpenLock(t)
  \/ \E t \in SaveTasks : StatLock(t)
  \/ \E t \in SaveTasks : Wake(t)
  \/ \E t \in SaveTasks : BodyRead(t)
  \/ \E t \in SaveTasks : SaveBegin(t)
  \/ \E t \in SaveTasks : SaveRename(t)
  \/ \E t \in SaveTasks : ReleaseLock(t)
  \/ Tick(pollIntervalMs, MaxSaveTicks)
  \/ readSessionUpdatedAt("p1")

SaveSpec == Init /\ [][SaveNext]_vars

\* Task t has returned from a saveSessionStore or updateSessionStore that wrote
Saved(t) == pc[t] = "done" /\ "write" \in hist[t]

\* C11: read-your-writes.  Once a save or update of the process has returned,
\* a loadSessionStore in that process returns what the file holds (the file
\* is written by this process only), whatever loads ran during the save.
C11_ReadYourWrites ==
  (\E t \in SaveTasks : Saved(t))
    => loadSessionStore("p1", FALSE).ret.val = FreshFromDisk

-----------------------------------------------------------------------------
(* LoadSpec: loadSessionStore on every kind of store file.  The file is    *)
(* missing, unreadable, no JSON5, a JSON5 value that is no object, or a    *)
(* store whose entry holds any combination of the legacy fields and their  *)
(* replacements; a process loads it, with and without the cache.           *)

LegacyFields == {"provider", "channel", "room", "groupChannel"}
FieldValue(f) == IF f \in {"provider", "channel"} THEN "telegram" ELSE "general"
LegacyEntries == {[f \in S |-> FieldValue(f)] : S \in SUBSET LegacyFields}

BadRaws ==
  {[kind |-> "unreadable", val |-> EmptyFcn],
   [kind |-> "text", val |-> EmptyFcn],
   [kind |-> "array", val |-> Put(EmptyFcn, "0", Put(EmptyFcn, "channel", "telegram"))],
   [kind |-> "null", val |-> EmptyFcn],
   [kind |-> "number", val |-> EmptyFcn]}

LoadFiles ==
  {NoFile}
    \cup {[exists |-> TRUE, raw |-> r, mtime |-> 0] : r \in BadRaws}
    \cup {[exists |-> TRUE, raw |-> JsonStringify(Put(EmptyFcn, "k1", e)), mtime |-> 0] :
            e \in LegacyEntries}

LoadInit ==
  /\ now = 0
  /\ ticks = 0
  /\ lock = NoLock
  /\ file \in LoadFiles
  /\ cache = [p \in Procs |-> NoCache]
  /\ pc = [t \in Tasks |-> "idle"]
  /\ op = [t \in Tasks |-> NoOp]
  /\ startedAt = [t \in Tasks |-> 0]
  /\ nowL = [t \in Tasks |-> 0]
  /\ wakeAt = [t \in Tasks |-> 0]
  /\ store = [t \in Tasks |-> EmptyFcn]
  /\ result = [t \in Tasks |-> "none"]
  /\ hist = [t \in Tasks |-> {}]
  /\ held = [p \in Procs |-> <<>>]
  /\ act = NoAct
  /\ fallback = NoFallback
  /\ resolved = NoResolved
  /\ gateway = NoGateway
  /\ cli = NoCli
  /\ session = NoSession
  /\ resolution = NoResolution
  /\ agent = NoAgent

LoadNext ==
  \/ \E p \in CacheProcs : \E skipCache \in BOOLEAN : Load(p, skipCache)
  \/ \E p \in CacheProcs : DropSnapshot(p)
  \/ \E d \in CacheTickSteps : Tick(d, MaxLoadTicks)

LoadSpec == LoadInit /\ [][LoadNext]_vars

\* The stores that the calls of loadSessionStore have returned
ReturnedStores == UNION {{held[p][i].val : i \in DOMAIN held[p]} : p \in CacheProcs}

\* The file is missing, unreadable, unparsable or holds a value that is no
\* object
BadFile == ~file.exists \/ file.raw.kind # "object"

\* C12: loadSessionStore never throws, and for a file that is missing,
\* unreadable, unparsable or a non-object value every call returns the empty
\* store.
C12_LoadNeverThrows ==
  /\ ~loadSessionStoreThrows(file)
  /\ BadFile => \A s \in ReturnedStores : s = EmptyFcn

\* C12 happens: a file holding an array was loaded twice and both calls
\* returned the empty store
C12_Witness ==
  /\ file.exists /\ file.raw.kind = "array"
  /\ \E p \in CacheProcs : Len(held[p]) = 2
  /\ ReturnedStores = {EmptyFcn}

\* C13: no entry that loadSessionStore returns holds provider together with
\* channel, or room together with groupChannel.
C13_NoLegacyPairs ==
  \A s \in ReturnedStores : \A k \in DOMAIN s :
    /\ ~(Has(s[k], "provider") /\ Has(s[k], "channel"))
    /\ ~(Has(s[k], "room") /\ Has(s[k], "groupChannel"))

-----------------------------------------------------------------------------
(* runWithModelFallback: the loop over the candidates *)

\* The cooldown flags of a provider's auth profiles, in resolveAuthProfileOrder's order
ProfileChoices == {<<>>, <<TRUE, TRUE>>, <<TRUE, FALSE>>}

\* isAnyProfileAvailable without the negation: some profile is in cooldown
isAnyProfileAvailable_InCooldown(profileIds) == \E j \in DOMAIN profileIds : profileIds[j]

\* profileIds.some((id) => !isProfileInCooldown(authStore, id))
isAnyProfileAvailable(profileIds) == \E j \in DOMAIN profileIds : ~profileIds[j]

\* The cooldown test of one iteration; authStore is null without a config
SkipsCandidate(f, i) ==
  /\ f.cfg
  /\ Len(f.profiles[i]) > 0
  /\ ~isAnyProfileAvailable(f.profiles[i])

\* After the loop: the single failure is thrown as it is, else the aggregate
Exhaust(f) ==
  IF Len(f.attempts) <= 1 /\ f.lastError # NoError
  THEN [f EXCEPT !.phase = "threw",
                 !.outcome = [NoOutcome EXCEPT !.kind = "threw", !.error = f.lastError]]
  ELSE [f EXCEPT !.phase = "threw",
                 !.outcome = [NoOutcome EXCEPT !.kind = "aggregate",
                                               !.message = AllModelsFailed(f.attempts, f.n),
                                               !.cause = f.lastError]]

\* The loop from candidate i on, up to the next call of run or the end
RECURSIVE Advance(_, _)
Advance(f, i) ==
  IF i > f.n THEN Exhaust(f)
  ELSE IF SkipsCandidate(f, i)
  THEN Advance([f EXCEPT !.attempts = Append(@, CooldownAttempt(i)),
                         !.reached = Append(@, [i |-> i, profiles |-> f.profiles[i], skipped |-> TRUE])],
               i + 1)
  ELSE [f EXCEPT !.phase = "running", !.i = i, !.runs = Append(@, i),
                 !.reached = Append(@, [i |-> i, profiles |-> f.profiles[i], skipped |-> FALSE])]

\* runWithModelFallback is called with n resolved candidates
Begin(n, cfg, onError, profiles) ==
  /\ fallback.phase = "idle"
  /\ fallback' = Advance([NoFallback EXCEPT !.cfg = cfg, !.onError = onError, !.n = n,
                                            !.profiles = profiles], 1)
  /\ UNCHANGED nonFallbackVars

\* RunResolves reporting candidates[0] in place of the candidate that ran
RunResolves_First ==
  /\ fallback.phase = "running"
  /\ fallback' = [fallback EXCEPT
       !.phase = "returned",
       !.outcome = [NoOutcome EXCEPT !.kind = "returned",
                                     !.provider = Candidate(1).provider,
                                     !.model = Candidate(1).model,
                                     !.attempts = fallback.attempts]]
  /\ UNCHANGED nonFallbackVars

\* run resolves: the result is returned with the candidate and the attempts so far
RunResolves ==
  /\ fallback.phase = "running"
  /\ fallback' = [fallback EXCEPT
       !.phase = "returned",
       !.outcome = [NoOutcome EXCEPT !.kind = "returned",
                                     !.provider = Candidate(fallback.i).provider,
                                     !.model = Candidate(fallback.i).model,
                                     !.attempts = fallback.attempts]]
  /\ UNCHANGED nonFallbackVars

\* What the catch block leaves when the error is a failover error
Recorded(f, err) ==
  [f EXCEPT !.lastError = Normalized(err, f.i),
            !.attempts = Append(@, FailedAttempt(f.i, Normalized(err, f.i))),
            !.raised = Append(@, [i |-> f.i, err |-> err])]

\* The arguments of the onError call
ErrorReport(f, err) ==
  [provider |-> Candidate(f.i).provider, model |-> Candidate(f.i).model,
   error |-> Normalized(err, f.i), attempt |-> f.i, total |-> f.n]

\* RunRejects calling onError without awaiting it
RunRejects_NoAwait(err) ==
  /\ fallback.phase = "running"
  /\ fallback' =
       IF shouldRethrowAbort(err) \/ ~isFailoverError(Normalized(err, fallback.i))
       THEN [fallback EXCEPT
               !.phase = "threw",
               !.raised = Append(@, [i |-> fallback.i, err |-> err]),
               !.outcome = [NoOutcome EXCEPT !.kind = "threw", !.error = err]]
       ELSE IF fallback.onError
       THEN Advance([Recorded(fallback, err) EXCEPT
                       !.observed = Append(@, ErrorReport(fallback, err)),
                       !.pending = fallback.i],
                    fallback.i + 1)
       ELSE Advance(Recorded(fallback, err), fallback.i + 1)
  /\ UNCHANGED nonFallbackVars

\* run rejects with err
RunRejects(err) ==
  /\ fallback.phase = "running"
  /\ fallback' =
       IF shouldRethrowAbort(err) \/ ~isFailoverError(Normalized(err, fallback.i))
       THEN [fallback EXCEPT
               !.phase = "threw",
               !.raised = Append(@, [i |-> fallback.i, err |-> err]),
               !.outcome = [NoOutcome EXCEPT !.kind = "threw", !.error = err]]
       ELSE IF fallback.onError
       THEN [Recorded(fallback, err) EXCEPT
               !.phase = "observing",
               !.observed = Append(@, ErrorReport(fallback, err)),
               !.pending = fallback.i]
       ELSE Advance(Recorded(fallback, err), fallback.i + 1)
  /\ UNCHANGED nonFallbackVars

\* The awaited onError call returns
ObserverDone ==
  /\ fallback.phase = "observing"
  /\ fallback' = Advance([fallback EXCEPT !.pending = 0], fallback.i + 1)
  /\ UNCHANGED nonFallbackVars

\* A profile of a later candidate enters or leaves its cooldown meanwhile
CooldownChange(i, profileIds) ==
  /\ fallback.phase \in {"running", "observing"}
  /\ i > fallback.i
  /\ i <= fallback.n
  /\ Len(profileIds) = Len(fallback.profiles[i])
  /\ profileIds # fallback.profiles[i]
  /\ fallback' = [fallback EXCEPT !.profiles[i] = profileIds]
  /\ UNCHANGED nonFallbackVars

FallbackNext ==
  \/ \E n \in 1 .. MaxCandidates, cfg \in BOOLEAN, onError \in BOOLEAN :
       \E profiles \in [1 .. n -> ProfileChoices] : Begin(n, cfg, onError, profiles)
  \/ RunResolves
  \/ \E err \in RunErrors : RunRejects(err)
  \/ ObserverDone
  \/ \E i \in 1 .. MaxCandidates, profileIds \in ProfileChoices : CooldownChange(i, profileIds)

FallbackSpec == Init /\ [][FallbackNext]_vars

-----------------------------------------------------------------------------
(* Claims about runWithModelFallback *)

\* The candidates run was invoked for so far are exactly 1 .. k, in this order
RanUpTo(k) == fallback.runs = [j \in 1 .. k |-> j]

\* run was invoked for candidate i
Ran(i) == \E j \in DOMAIN fallback.runs : fallback.runs[j] = i

\* C14: run is invoked on the candidates in list order; when candidates
\* 1 .. k-1 each failed with a failover error and candidate k succeeds, the
\* result carries candidate k's provider and model, attempts has exactly k-1
\* records in candidate order, and run was invoked for no candidate after k.
C14_FallbackOrder ==
  /\ \A a, b \in DOMAIN fallback.runs : a < b => fallback.runs[a] < fallback.runs[b]
  /\ \A k \in 1 .. MaxCandidates :
       (fallback.phase = "returned" /\ fallback.i = k /\ RanUpTo(k))
         => /\ fallback.outcome.provider = Candidate(k).provider
            /\ fallback.outcome.model = Candidate(k).model
            /\ Len(fallback.outcome.attempts) = k - 1
            /\ \A j \in 1 .. k - 1 :
                 /\ fallback.outcome.attempts[j].provider = Candidate(j).provider
                 /\ fallback.outcome.attempts[j].model = Candidate(j).model
            /\ \A j \in k + 1 .. MaxCandidates : ~Ran(j)

\* Two candidates failed over, the third succeeded, and there was one after it
C14_Witness ==
  /\ fallback.phase = "returned"
  /\ fallback.i = MaxCandidates - 1
  /\ fallback.n = MaxCandidates
  /\ RanUpTo(MaxCandidates - 1)

\* err is no FailoverError and has no failover reason
Unclassifiable(err) == ~err.failover /\ err.reason = "none"

\* An attempt was recorded for candidate i
Attempted(i) ==
  \E j \in DOMAIN fallback.attempts :
    /\ fallback.attempts[j].provider = Candidate(i).provider
    /\ fallback.attempts[j].model = Candidate(i).model

\* onError was called for candidate i
Observed(i) == \E j \in DOMAIN fallback.observed : fallback.observed[j].attempt = i

\* C15: when run throws an error that cannot be classified as a failover
\* error, runWithModelFallback rejects with that same error, records no
\* attempt for the candidate, does not call onError for it, and invokes run
\* for no later candidate.
C15_ShortCircuit ==
  \A j \in DOMAIN fallback.raised :
    Unclassifiable(fallback.raised[j].err)
      => /\ fallback.phase = "threw"
         /\ fallback.outcome.kind = "threw"
         /\ fallback.outcome.error = fallback.raised[j].err
         /\ ~Attempted(fallback.raised[j].i)
         /\ ~Observed(fallback.raised[j].i)
         /\ \A k \in fallback.raised[j].i + 1 .. MaxCandidates : ~Ran(k)

\* The second of three candidates threw a plain error without failover reason
C15_Witness ==
  /\ fallback.n = MaxCandidates
  /\ Len(fallback.raised) = 2
  /\ fallback.raised[2].i = 2
  /\ fallback.raised[2].err.name = "Error"
  /\ Unclassifiable(fallback.raised[2].err)

\* The provider of the j-th candidate reached had at least one auth profile
\* and all of them were in cooldown when the loop reached it
AllInCooldown(j) ==
  /\ Len(fallback.reached[j].profiles) > 0
  /\ \A p \in DOMAIN fallback.reached[j].profiles : fallback.reached[j].profiles[p]

\* The j-th candidate reached was skipped: run was not invoked for it, one
\* synthetic rate_limit attempt stands for it, and the loop went on
CooldownSkipped(j) ==
  /\ ~Ran(fallback.reached[j].i)
  /\ Cardinality({a \in DOMAIN fallback.attempts :
                    fallback.attempts[a].provider = Candidate(fallback.reached[j].i).provider})
       = 1
  /\ \A a \in DOMAIN fallback.attempts :
       fallback.attempts[a].provider = Candidate(fallback.reached[j].i).provider
         => /\ fallback.attempts[a] = CooldownAttempt(fallback.reached[j].i)
            /\ fallback.attempts[a].reason = "rate_limit"
  /\ IF fallback.reached[j].i < fallback.n
     THEN /\ j < Len(fallback.reached)
          /\ fallback.reached[j + 1].i = fallback.reached[j].i + 1
     ELSE fallback.phase = "threw"

\* C16 as stated: a candidate whose provider has at least one auth profile,
\* all of them in cooldown, is skipped.
C16_CooldownSkip ==
  \A j \in DOMAIN fallback.reached : AllInCooldown(j) => CooldownSkipped(j)

\* C16 amended: when runWithModelFallback is given a config, a candidate
\* whose provider has at least one auth profile, all of them in cooldown, is
\* skipped: run is never invoked for it, one synthetic attempt with reason
\* rate_limit is appended, and the loop continues with the next candidate.
C16_CooldownSkipWithConfig ==
  \A j \in DOMAIN fallback.reached :
    (fallback.cfg /\ AllInCooldown(j)) => CooldownSkipped(j)

\* With a config, the first candidate was skipped and run was invoked for the second
C16_Witness ==
  /\ fallback.cfg
  /\ Len(fallback.reached) >= 2
  /\ AllInCooldown(1)
  /\ fallback.reached[1].skipped
  /\ fallback.runs = <<2>>

\* C17: when the candidate list has exactly one candidate and its run fails
\* with a failover-eligible error, the error runWithModelFallback throws is
\* the very error run threw: no aggregate and no converted error.
C17_SingleFailureTransparency ==
  (/\ fallback.n = 1
   /\ fallback.phase = "threw"
   /\ Len(fallback.raised) = 1
   /\ ~Unclassifiable(fallback.raised[1].err))
    => /\ fallback.outcome.kind = "threw"
       /\ fallback.outcome.error = fallback.raised[1].err

\* The error run threw for candidate i
RaisedBy(i) == (CHOOSE j \in DOMAIN fallback.raised : fallback.raised[j].i = i)

\* The failover error the catch block made of what run threw for candidate i
FailoverErrorOf(i) == Normalized(fallback.raised[RaisedBy(i)].err, i)

\* What the aggregate message must say of the j-th candidate reached
ExpectedEntry(j) ==
  <<Candidate(fallback.reached[j].i).provider, "/", Candidate(fallback.reached[j].i).model, ": ">>
    \o (IF fallback.reached[j].skipped
        THEN <<<<"Provider", Candidate(fallback.reached[j].i).provider, "is in cooldown">>,
               " (", "rate_limit", ")">>
        ELSE <<<<FailoverErrorOf(fallback.reached[j].i).name,
                 FailoverErrorOf(fallback.reached[j].i).origin>>,
               " (", FailoverErrorOf(fallback.reached[j].i).reason, ")">>)

RECURSIVE ExpectedList(_)
ExpectedList(j) ==
  IF j > Len(fallback.reached) THEN <<>>
  ELSE IF j = Len(fallback.reached) THEN ExpectedEntry(j)
  ELSE ExpectedEntry(j) \o <<" | ">> \o ExpectedList(j + 1)

\* Every candidate was reached and none of the errors run threw ended the loop
Exhausted ==
  /\ fallback.phase = "threw"
  /\ Len(fallback.reached) = fallback.n
  /\ \A j \in DOMAIN fallback.raised :
       /\ ~shouldRethrowAbort(fallback.raised[j].err)
       /\ ~Unclassifiable(fallback.raised[j].err)

\* C18: on exhaustion with two or more recorded attempts (failed or skipped
\* for cooldown) runWithModelFallback throws one aggregate "All models failed"
\* error; its message lists every attempt in candidate order as
\* provider/model: message (reason), and its cause is the failover error of
\* the last run that failed (none when every candidate was skipped).
C18_Aggregate ==
  (Exhausted /\ Len(fallback.attempts) >= 2)
    => /\ fallback.outcome.kind = "aggregate"
       /\ Len(fallback.attempts) = fallback.n
       /\ fallback.outcome.message
            = <<"All models failed (", fallback.n, "): ">> \o ExpectedList(1)
       /\ fallback.outcome.cause
            = IF fallback.raised = <<>> THEN NoError
              ELSE FailoverErrorOf(fallback.raised[Len(fallback.raised)].i)

\* Three candidates: one skipped for cooldown, two whose run failed over, the
\* last of them with a plain error that was converted
C18_Witness ==
  /\ Exhausted
  /\ fallback.n = MaxCandidates
  /\ Len(fallback.raised) = MaxCandidates - 1
  /\ fallback.reached[1].skipped
  /\ ~fallback.raised[Len(fallback.raised)].err.failover
  /\ fallback.outcome.kind = "aggregate"

\* err is an explicit cancellation: named AbortError, no failover error, no timeout
Cancellation(err) ==
  /\ err.object
  /\ err.name = "AbortError"
  /\ ~err.failover
  /\ ~err.timeout

\* C19: when run throws an explicit cancellation, runWithModelFallback
\* rethrows it at once: no attempt is recorded for the candidate, onError is
\* not called for it, and run is invoked for no further candidate.
C19_Cancellation ==
  \A j \in DOMAIN fallback.raised :
    Cancellation(fallback.raised[j].err)
      => /\ fallback.phase = "threw"
         /\ fallback.outcome.kind = "threw"
         /\ fallback.outcome.error = fallback.raised[j].err
         /\ Len(fallback.attempts) = fallback.raised[j].i - 1
         /\ ~Attempted(fallback.raised[j].i)
         /\ ~Observed(fallback.raised[j].i)
         /\ \A k \in fallback.raised[j].i + 1 .. MaxCandidates : ~Ran(k)

\* The second of three candidates was cancelled with an AbortError that
\* carries a failover reason
C19_Witness ==
  /\ fallback.n = MaxCandidates
  /\ Len(fallback.raised) = 2
  /\ fallback.raised[2].i = 2
  /\ Cancellation(fallback.raised[2].err)
  /\ fallback.raised[2].err.reason # "none"

\* The loop went on after candidate i: the onError call is awaited, a later
\* candidate was reached, or i was the last candidate and the loop ended
Advanced(i) ==
  \/ fallback.phase = "observing" /\ fallback.i = i
  \/ \E j \in DOMAIN fallback.reached : fallback.reached[j].i = i + 1
  \/ i = fallback.n /\ Exhausted

\* C20: a timeout raised by run, also one that is named AbortError, is no
\* cancellation: it is recorded as an attempt with the failover reason
\* timeout, and runWithModelFallback advances to the next candidate.
C20_TimeoutFailsOver ==
  \A j \in DOMAIN fallback.raised :
    isTimeoutError(fallback.raised[j].err)
      => /\ ~(fallback.outcome.kind = "threw"
               /\ fallback.outcome.error = fallback.raised[j].err)
         /\ \E a \in DOMAIN fallback.attempts :
              /\ fallback.attempts[a].provider = Candidate(fallback.raised[j].i).provider
              /\ fallback.attempts[a].model = Candidate(fallback.raised[j].i).model
              /\ fallback.attempts[a].reason = "timeout"
         /\ Advanced(fallback.raised[j].i)

\* The first candidate timed out with an error named AbortError and run was
\* invoked for the second
C20_Witness ==
  /\ Len(fallback.raised) >= 1
  /\ fallback.raised[1].err.name = "AbortError"
  /\ isTimeoutError(fallback.raised[1].err)
  /\ fallback.runs = <<1, 2>>

\* The candidates whose run was invoked and has neither rejected nor resolved
InFlight ==
  {fallback.runs[j] : j \in DOMAIN fallback.runs}
    \ ({fallback.raised[j].i : j \in DOMAIN fallback.raised}
         \cup (IF fallback.phase = "returned" THEN {fallback.i} ELSE {}))

\* C21: at most one run is in flight at any time; run for a later candidate
\* is invoked only after every run invoked before it has rejected, its
\* attempt has been appended and its awaited onError call has completed;
\* onError is called with increasing attempt numbers.
C21_StrictSequencing ==
  /\ Cardinality(InFlight) <= 1
  /\ \A a, b \in DOMAIN fallback.runs :
       a < b => /\ \E j \in DOMAIN fallback.raised : fallback.raised[j].i = fallback.runs[a]
                /\ Attempted(fallback.runs[a])
                /\ fallback.onError => Observed(fallback.runs[a])
                /\ fallback.pending # fallback.runs[a]
  /\ InFlight # {} => fallback.pending = 0
  /\ \A a, b \in DOMAIN fallback.observed :
       a < b => fallback.observed[a].attempt < fallback.observed[b].attempt

\* Three runs were invoked one after the other, with onError called after
\* the first two
C21_Witness ==
  /\ fallback.onError
  /\ fallback.runs = <<1, 2, 3>>
  /\ Len(fallback.observed) = 2
  /\ InFlight = {3}

-----------------------------------------------------------------------------
(* resolveFallbackCandidates and the runs on its result *)

\* runWithModelFallback resolves its candidates
Resolve(cfg, override, request) ==
  /\ resolved.phase = "idle"
  /\ resolved' = [phase |-> "resolved", cfg |-> cfg, override |-> override,
                  request |-> request,
                  candidates |-> resolveFallbackCandidates(cfg, override, request),
                  ran |-> <<>>]
  /\ UNCHANGED nonResolvedVars

\* The loop invokes run for the next candidate
RunCandidate ==
  /\ resolved.phase = "resolved"
  /\ Len(resolved.ran) < Len(resolved.candidates)
  /\ resolved' = [resolved EXCEPT
       !.ran = Append(@, modelKey(resolved.candidates[Len(resolved.ran) + 1].provider,
                                  resolved.candidates[Len(resolved.ran) + 1].model))]
  /\ UNCHANGED nonResolvedVars

ResolveNext ==
  \/ /\ resolved.phase = "idle"
     /\ \E cfg \in Configs \cup {NoConfig}, override \in Overrides, request \in Requests :
          Resolve(cfg, override, request)
  \/ RunCandidate

ResolveSpec == Init /\ [][ResolveNext]_vars

-----------------------------------------------------------------------------
(* Claims about resolveFallbackCandidates *)

\* The key of candidate c
KeyOf(c) == modelKey(c.provider, c.model)

\* The keys of the candidates resolved
CandidateKeys == {KeyOf(resolved.candidates[j]) : j \in DOMAIN resolved.candidates}

\* The keys the config allows; an allowlist exists when there is one at least
AllowedKeys == {KeyOf(r) : r \in resolved.cfg.models \ {NoRef}}

\* The fallback list in use
FallbackList ==
  IF resolved.override.given THEN resolved.override.list ELSE resolved.cfg.fallbacks

\* The entries of the fallback list that resolve to a model the allowlist
\* does not contain, and that is not the requested model
Disallowed ==
  {resolveModelRefFromString(FallbackList[j]) : j \in DOMAIN FallbackList}
    \cap {r \in [provider : {"anthropic", "openai"}, model : {"opus", "gpt"}] :
            /\ AllowedKeys # {}
            /\ KeyOf(r) \notin AllowedKeys
            /\ r # resolved.candidates[1]}

\* The first candidate is the requested model, no key occurs twice among the
\* candidates, and run is invoked at most once per key
PrimaryFirstNoDuplicates ==
  /\ Len(resolved.candidates) >= 1
  /\ resolved.candidates[1].provider
       = (IF Trim(resolved.request.provider) # "" THEN Trim(resolved.request.provider)
          ELSE IF resolved.cfg.present THEN resolved.cfg.primary.provider
          ELSE DEFAULT_PROVIDER)
  /\ resolved.candidates[1].model
       = (IF Trim(resolved.request.model) # "" THEN Trim(resolved.request.model)
          ELSE IF resolved.cfg.present THEN resolved.cfg.primary.model
          ELSE DEFAULT_MODEL)
  /\ \A a, b \in DOMAIN resolved.candidates :
       a # b => KeyOf(resolved.candidates[a]) # KeyOf(resolved.candidates[b])
  /\ \A a, b \in DOMAIN resolved.ran : a # b => resolved.ran[a] # resolved.ran[b]

\* C22 as stated: the first candidate is the requested provider/model,
\* whether the allowlist contains it or not; every candidate taken from the
\* fallback list is dropped when an allowlist exists and does not contain
\* it; no two candidates share a key, so run is invoked at most once per key.
C22_CandidateResolution ==
  resolved.phase = "resolved"
    => /\ PrimaryFirstNoDuplicates
       /\ \A r \in Disallowed : KeyOf(r) \notin CandidateKeys

\* C22 amended: as stated, except that the configured default model is
\* appended as the last candidate, whether the allowlist contains it or not,
\* when no fallbacksOverride is given: a fallback entry that names it is
\* dropped from its place in the list only.
C22_CandidateResolutionButDefault ==
  resolved.phase = "resolved"
    => /\ PrimaryFirstNoDuplicates
       /\ \A r \in Disallowed :
            \/ KeyOf(r) \notin CandidateKeys
            \/ /\ ~resolved.override.given
               /\ resolved.cfg.present
               /\ r = resolved.cfg.primary
               /\ r = resolved.candidates[Len(resolved.candidates)]

\* The requested model is not in the allowlist and comes first, one fallback
\* entry was dropped for the allowlist and one was kept, and run was invoked
\* for every candidate
C22_Witness ==
  /\ resolved.phase = "resolved"
  /\ AllowedKeys # {}
  /\ KeyOf(resolved.candidates[1]) \notin AllowedKeys
  /\ Disallowed # {}
  /\ Len(resolved.candidates) >= 2
  /\ Len(resolved.ran) = Len(resolved.candidates)

-----------------------------------------------------------------------------
(* runWithImageModelFallback *)

\* The attempt pushed for candidate i: provider, model and the error's
\* message; the image loop records no reason
ImageAttempt(i, err) ==
  [provider |-> Candidate(i).provider, model |-> Candidate(i).model,
   error |-> <<err.name, err.origin>>, reason |-> "none"]

\* `All image models failed (${attempts.length || candidates.length}): ${summary}`
AllImageModelsFailed(attempts, n) ==
  <<"All image models failed (", IF Len(attempts) # 0 THEN Len(attempts) ELSE n, "): ">>
    \o Summary(attempts)

\* After the loop; the cause is lastError if it is an Error
ImageExhaust(f) ==
  IF Len(f.attempts) <= 1 /\ f.lastError # NoError
  THEN [f EXCEPT !.phase = "threw",
                 !.outcome = [NoOutcome EXCEPT !.kind = "threw", !.error = f.lastError]]
  ELSE [f EXCEPT !.phase = "threw",
                 !.outcome = [NoOutcome EXCEPT
                                !.kind = "aggregate",
                                !.message = AllImageModelsFailed(f.attempts, f.n),
                                !.cause = IF f.lastError.object THEN f.lastError ELSE NoError]]

\* ImageAdvance with the cooldown test of runWithModelFallback
ImageAdvance_CooldownCheck(f, i) == Advance(f, i)

\* The loop from candidate i on, up to the call of run or the end
ImageAdvance(f, i) ==
  IF i > f.n THEN ImageExhaust(f)
  ELSE [f EXCEPT !.phase = "running", !.i = i, !.runs = Append(@, i),
                 !.reached = Append(@, [i |-> i, profiles |-> f.profiles[i], skipped |-> FALSE])]

\* runWithImageModelFallback is called and resolves n candidates
ImageBegin(n, cfg, onError, profiles) ==
  /\ fallback.phase = "idle"
  /\ fallback' =
       IF n = 0
       THEN [NoFallback EXCEPT !.phase = "threw", !.cfg = cfg, !.onError = onError,
                               !.outcome = [NoOutcome EXCEPT !.kind = "unconfigured"]]
       ELSE ImageAdvance([NoFallback EXCEPT !.cfg = cfg, !.onError = onError, !.n = n,
                                            !.profiles = profiles], 1)
  /\ UNCHANGED nonFallbackVars

\* run resolves
ImageRunResolves ==
  /\ fallback.phase = "running"
  /\ fallback' = [fallback EXCEPT
       !.phase = "returned",
       !.outcome = [NoOutcome EXCEPT !.kind = "returned",
                                     !.provider = Candidate(fallback.i).provider,
                                     !.model = Candidate(fallback.i).model,
                                     !.attempts = fallback.attempts]]
  /\ UNCHANGED nonFallbackVars

\* What the catch block of the image loop leaves
ImageRecorded(f, err) ==
  [f EXCEPT !.lastError = err,
            !.attempts = Append(@, ImageAttempt(f.i, err)),
            !.raised = Append(@, [i |-> f.i, err |-> err])]

\* run rejects with err
ImageRunRejects(err) ==
  /\ fallback.phase = "running"
  /\ fallback' =
       IF shouldRethrowAbort(err)
       THEN [fallback EXCEPT
               !.phase = "threw",
               !.raised = Append(@, [i |-> fallback.i, err |-> err]),
               !.outcome = [NoOutcome EXCEPT !.kind = "threw", !.error = err]]
       ELSE IF fallback.onError
       THEN [ImageRecorded(fallback, err) EXCEPT
               !.phase = "observing",
               !.observed = Append(@, [provider |-> Candidate(fallback.i).provider,
                                       model |-> Candidate(fallback.i).model,
                                       error |-> err, attempt |-> fallback.i,
                                       total |-> fallback.n]),
               !.pending = fallback.i]
       ELSE ImageAdvance(ImageRecorded(fallback, err), fallback.i + 1)
  /\ UNCHANGED nonFallbackVars

\* The awaited onError call returns
ImageObserverDone ==
  /\ fallback.phase = "observing"
  /\ fallback' = ImageAdvance([fallback EXCEPT !.pending = 0], fallback.i + 1)
  /\ UNCHANGED nonFallbackVars

ImageNext ==
  \/ /\ fallback.phase = "idle"
     /\ \E n \in 0 .. MaxCandidates, cfg \in BOOLEAN, onError \in BOOLEAN :
          \E profiles \in [1 .. n -> ProfileChoices] : ImageBegin(n, cfg, onError, profiles)
  \/ ImageRunResolves
  \/ \E err \in RunErrors : ImageRunRejects(err)
  \/ ImageObserverDone

ImageSpec == Init /\ [][ImageNext]_vars

\* The image loop went on after candidate i, which is not the last: the
\* onError call is awaited, or run was invoked for candidate i + 1
ImageAdvanced(i) ==
  \/ fallback.phase = "observing" /\ fallback.i = i
  \/ Ran(i + 1)

\* run was invoked for every candidate the loop reached, whatever the
\* cooldown of its provider's profiles
NoCooldownCheck ==
  \A j \in DOMAIN fallback.reached :
    /\ ~fallback.reached[j].skipped
    /\ Ran(fallback.reached[j].i)

\* C23 as stated: runWithImageModelFallback makes no cooldown test, and
\* whatever run throws for a candidate that is not the last, the loop
\* records an attempt and advances to the next candidate.
C23_ImageEveryErrorFailsOver ==
  /\ NoCooldownCheck
  /\ \A j \in DOMAIN fallback.raised :
       fallback.raised[j].i < fallback.n
         => /\ Attempted(fallback.raised[j].i)
            /\ ImageAdvanced(fallback.raised[j].i)

\* C23 amended: runWithImageModelFallback makes no cooldown test, and
\* whatever run throws for a candidate that is not the last, except an
\* explicit cancellation (an AbortError that is no timeout), the loop
\* records an attempt and advances; a cancellation is rethrown at once.
C23_ImageFailsOverButCancellation ==
  /\ NoCooldownCheck
  /\ \A j \in DOMAIN fallback.raised :
       fallback.raised[j].i < fallback.n
         => IF Cancellation(fallback.raised[j].err)
            THEN /\ fallback.outcome.kind = "threw"
                 /\ fallback.outcome.error = fallback.raised[j].err
                 /\ ~Attempted(fallback.raised[j].i)
                 /\ ~Ran(fallback.raised[j].i + 1)
            ELSE /\ Attempted(fallback.raised[j].i)
                 /\ ImageAdvanced(fallback.raised[j].i)

\* With a config and all profiles of the first provider in cooldown, run was
\* invoked for the first candidate, threw an error without failover reason,
\* and was invoked for the second
C23_Witness ==
  /\ fallback.cfg
  /\ Len(fallback.reached) = 2
  /\ AllInCooldown(1)
  /\ Len(fallback.raised) = 1
  /\ Unclassifiable(fallback.raised[1].err)
  /\ ~Cancellation(fallback.raised[1].err)
  /\ fallback.runs = <<1, 2>>

-----------------------------------------------------------------------------
(* callGateway: the call, the client's callbacks and the timer *)

\* callGateway(opts): throws on a remote mode without URL, else creates the
\* client, arms the timer and starts the client
CallGateway(opts) ==
  /\ gateway.phase = "idle"
  /\ gateway' =
       IF RemoteMisconfigured(opts)
       THEN [NoGateway EXCEPT
               !.phase = "threw", !.opts = opts, !.settles = 1, !.first = "config",
               !.promise = [state |-> "rejected",
                            error |-> GatewayError("config",
                                        <<"gateway remote mode misconfigured: gateway.remote.url missing">>),
                            value |-> "none"]]
       ELSE [NoGateway EXCEPT !.phase = "started", !.opts = opts, !.timer = "armed",
                              !.conn = "connecting"]
  /\ UNCHANGED nonGatewayVars

\* The handshake completes: onHelloOk sends the request and awaits it
HelloOk ==
  /\ gateway.phase = "started"
  /\ gateway.conn = "connecting"
  /\ gateway' = [gateway EXCEPT !.conn = "open", !.request = "pending"]
  /\ UNCHANGED nonGatewayVars

\* client.request resolves: the rest of onHelloOk's try block
RequestResolves(value, sync) ==
  /\ gateway.request = "pending"
  /\ gateway' =
       clientStop(stop([gateway EXCEPT !.request = "resolved", !.ignoreClose = TRUE,
                                       !.first = IF @ = "none" THEN "response" ELSE @],
                       NoGatewayError, value),
                  sync)
  /\ UNCHANGED nonGatewayVars

\* client.request rejects: onHelloOk's catch block
RequestRejects(err, sync) ==
  /\ gateway.request = "pending"
  /\ gateway' =
       stop(clientStop([gateway EXCEPT !.request = "rejected", !.ignoreClose = TRUE,
                                       !.first = IF @ = "none" THEN "error" ELSE @],
                       sync),
            err, "none")
  /\ UNCHANGED nonGatewayVars

\* The connection closes, or the close that client.stop() caused is reported
Close(code, reason) ==
  /\ gateway.phase = "started"
  /\ gateway.closes = 0
  /\ gateway' = onClose([gateway EXCEPT
                           !.conn = "closed", !.closes = @ + 1,
                           !.first = IF @ = "none" THEN "close" ELSE @,
                           !.closed = [code |-> code, reason |-> reason,
                                       during |-> gateway.conn]],
                        code, reason, FALSE)
  /\ UNCHANGED nonGatewayVars

\* The timer expires
TimerFires(sync) ==
  /\ gateway.timer = "armed"
  /\ gateway.elapsed >= TimeoutOf(gateway.opts)
  /\ gateway' =
       stop(clientStop([gateway EXCEPT !.timer = "fired", !.ignoreClose = TRUE,
                                       !.first = IF @ = "none" THEN "timeout" ELSE @],
                       sync),
            GatewayError("timeout", formatTimeoutError(gateway.opts)), "none")
  /\ UNCHANGED nonGatewayVars

\* Time passes; an armed timer fires before time passes its delay
GatewayTick ==
  /\ gateway.phase = "started"
  /\ gateway.ticks < MaxGatewayTicks
  /\ ~(gateway.timer = "armed" /\ gateway.elapsed >= TimeoutOf(gateway.opts))
  /\ gateway' = [gateway EXCEPT !.elapsed = @ + GatewayTickStep, !.ticks = @ + 1]
  /\ UNCHANGED nonGatewayVars

GatewayNext ==
  \/ /\ gateway.phase = "idle"
     /\ \E opts \in GatewayOpts : CallGateway(opts)
  \/ HelloOk
  \/ \E value \in Payloads, sync \in BOOLEAN : RequestResolves(value, sync)
  \/ \E err \in RequestErrors, sync \in BOOLEAN : RequestRejects(err, sync)
  \/ \E code \in CloseCodes, reason \in CloseReasons : Close(code, reason)
  \/ \E sync \in BOOLEAN : TimerFires(sync)
  \/ GatewayTick

GatewaySpec == Init /\ [][GatewayNext]_vars

\* The timer fires when it is due, and time passes
GatewayLiveSpec ==
  GatewaySpec /\ WF_vars(\E sync \in BOOLEAN : TimerFires(sync)) /\ WF_vars(GatewayTick)

-----------------------------------------------------------------------------
(* Claims about callGateway *)

\* The promise callGateway returned has been resolved or rejected
Settled == gateway.promise.state # "pending"

\* The outcome that the event named in gateway.first stands for
OutcomeOfFirst ==
  CASE gateway.first = "response" -> gateway.promise.state = "resolved"
    [] gateway.first = "error" ->
         gateway.promise.state = "rejected" /\ gateway.promise.error \in RequestErrors
    [] gateway.first = "close" ->
         gateway.promise.state = "rejected" /\ gateway.promise.error.kind = "closed"
    [] gateway.first = "timeout" ->
         gateway.promise.state = "rejected" /\ gateway.promise.error.kind = "timeout"
    [] gateway.first = "config" ->
         gateway.promise.state = "rejected" /\ gateway.promise.error.kind = "config"
    [] OTHER -> gateway.promise.state = "pending"

\* C24: over every interleaving of request completion, request failure,
\* connection close and timer expiry, the promise of callGateway is settled
\* exactly once, with the outcome of the first of these events, and no later
\* event changes it.
C24_SettleOnce ==
  [][/\ gateway'.settles <= 1
     /\ OutcomeOfFirst'
     /\ gateway'.first # "none" => gateway'.settles = 1
     /\ Settled => gateway'.promise = gateway.promise]_vars

\* The timer expired first; the request failed and the close was reported
\* after it
C24_Witness ==
  /\ gateway.first = "timeout"
  /\ gateway.request = "rejected"
  /\ gateway.closes = 1
  /\ gateway.settles = 1

\* C25: when the timer expires before the call has settled, callGateway
\* rejects with 'gateway timeout after <timeoutMs>ms' and the connection
\* details; no call is unsettled later than timeoutMs after its start, and
\* every call settles eventually.
C25_GatewayTimeout ==
  /\ [](gateway.first = "timeout"
          => /\ gateway.promise.state = "rejected"
             /\ gateway.elapsed >= (IF gateway.opts.timeoutMs = NoTimeoutOpt
                                    THEN DefaultGatewayTimeoutMs
                                    ELSE gateway.opts.timeoutMs)
             /\ SubSeq(gateway.promise.error.message, 1, 3)
                  = <<"gateway timeout after ",
                      IF gateway.opts.timeoutMs = NoTimeoutOpt
                      THEN DefaultGatewayTimeoutMs ELSE gateway.opts.timeoutMs,
                      "ms">>
             /\ SubSeq(gateway.promise.error.message, 4,
                       Len(gateway.promise.error.message))
                  = DetailsMessage(gateway.opts))
  /\ []((gateway.phase = "started" /\ ~Settled)
          => gateway.elapsed <= (IF gateway.opts.timeoutMs = NoTimeoutOpt
                                 THEN DefaultGatewayTimeoutMs
                                 ELSE gateway.opts.timeoutMs))
  /\ (gateway.phase # "idle") ~> Settled

\* After the handshake the request stayed pending and the connection open
\* until the default timeout expired
C25_Witness ==
  /\ gateway.first = "timeout"
  /\ gateway.opts.timeoutMs = NoTimeoutOpt
  /\ gateway.request = "pending"
  /\ gateway.closes = 0
  /\ gateway.promise.error.kind = "timeout"

\* C26: when the connection closes before the call has settled, while
\* connecting or with the request pending, with any close code, 1000
\* included, callGateway rejects with a 'gateway closed' error that carries
\* the code, the reason and the connection details.
C26_UnexpectedClose ==
  gateway.first = "close"
    => /\ gateway.promise.state = "rejected"
       /\ gateway.promise.error.kind = "closed"
       /\ gateway.promise.error.message[1] = "gateway closed ("
       /\ gateway.promise.error.message[2] = gateway.closed.code
       /\ gateway.promise.error.message[5]
            = (IF gateway.closed.reason # "" THEN gateway.closed.reason
               ELSE "no close reason")
       /\ SubSeq(gateway.promise.error.message, 6, Len(gateway.promise.error.message))
            = DetailsMessage(gateway.opts)

\* The connection closed with code 1000 while the request was pending
C26_Witness ==
  /\ gateway.first = "close"
  /\ gateway.closed.code = 1000
  /\ gateway.closed.during = "open"
  /\ gateway.request = "pending"

\* C27: once callGateway has settled, on every path, the client has been
\* stopped, no connection is open and the timer is not armed.
C27_StoppedWhenSettled ==
  Settled
    => /\ gateway.conn \in {"none", "closed"}
       /\ gateway.timer # "armed"
       /\ gateway.phase = "started" => gateway.stops >= 1

\* The request resolved and the call settled with its payload
C27_Witness ==
  /\ gateway.first = "response"
  /\ gateway.promise.state = "resolved"
  /\ gateway.promise.value \in Payloads
  /\ gateway.stops = 1

-----------------------------------------------------------------------------
(* agentCliCommand *)

\* The catch block of agentCliCommand: the error is logged and agentCommand
\* is invoked
FallBackToLocal(c, err) ==
  [c EXCEPT !.phase = "local", !.localCalls = @ + 1, !.failure = err,
            !.logged = Append(@, <<"Gateway agent failed; falling back to embedded: ", err>>)]

\* agentCliCommand(opts): with --local agentCommand is invoked; else
\* agentViaGatewayCommand, which validates its options and calls callGateway
AgentCliCommand(local, valid) ==
  /\ cli.phase = "idle"
  /\ cli' =
       IF local THEN [NoCli EXCEPT !.phase = "local", !.local = TRUE, !.localCalls = 1]
       ELSE IF ~valid
       THEN FallBackToLocal(NoCli, CHOOSE err \in ValidationErrors : TRUE)
       ELSE [NoCli EXCEPT !.phase = "gateway", !.gatewayCalls = 1]
  /\ UNCHANGED nonCliVars

\* GatewaySettled without the catch block: the error of callGateway ends the command
GatewaySettled_Rethrow ==
  /\ cli.phase = "gateway"
  /\ gateway.promise.state # "pending"
  /\ cli' =
       IF gateway.promise.state = "resolved"
       THEN [cli EXCEPT !.phase = "done",
                        !.outcome = [NoCliOutcome EXCEPT !.kind = "returned", !.by = "gateway",
                                                         !.value = gateway.promise.value]]
       ELSE [cli EXCEPT !.phase = "done", !.failure = gateway.promise.error,
                        !.outcome = [NoCliOutcome EXCEPT !.kind = "threw", !.by = "gateway",
                                                         !.error = gateway.promise.error]]
  /\ UNCHANGED nonCliVars

\* The promise of callGateway has settled: its value is returned, or its
\* error is caught
GatewaySettled ==
  /\ cli.phase = "gateway"
  /\ gateway.promise.state # "pending"
  /\ cli' =
       IF gateway.promise.state = "resolved"
       THEN [cli EXCEPT !.phase = "done",
                        !.outcome = [NoCliOutcome EXCEPT !.kind = "returned", !.by = "gateway",
                                                         !.value = gateway.promise.value]]
       ELSE FallBackToLocal(cli, gateway.promise.error)
  /\ UNCHANGED nonCliVars

\* agentCommand returns
LocalReturns(value) ==
  /\ cli.phase = "local"
  /\ cli' = [cli EXCEPT !.phase = "done",
                        !.outcome = [NoCliOutcome EXCEPT !.kind = "returned", !.by = "local",
                                                         !.value = value]]
  /\ UNCHANGED nonCliVars

\* agentCommand throws
LocalThrows(err) ==
  /\ cli.phase = "local"
  /\ cli' = [cli EXCEPT !.phase = "done",
                        !.outcome = [NoCliOutcome EXCEPT !.kind = "threw", !.by = "local",
                                                         !.error = err]]
  /\ UNCHANGED nonCliVars

CliNext ==
  \/ \E local \in BOOLEAN, valid \in BOOLEAN : AgentCliCommand(local, valid)
  \/ /\ cli.phase = "gateway"
     /\ GatewayNext
  \/ GatewaySettled
  \/ \E value \in LocalResults : LocalReturns(value)
  \/ \E err \in LocalErrors : LocalThrows(err)

CliSpec == Init /\ [][CliNext]_vars

\* C28: when gateway.mode is remote and neither opts.url nor
\* gateway.remote.url is set, callGateway throws before any connection is
\* opened, and an agentCliCommand that hits this error ends with that error
\* and is not recovered by the local agent.
C28_ConfigErrorFatal ==
  gateway.first = "config"
    => /\ gateway.conn = "none"
       /\ gateway.stops = 0
       /\ gateway.promise.state = "rejected"
       /\ cli.localCalls = 0
       /\ cli.phase = "done"
            => /\ cli.outcome.kind = "threw"
               /\ cli.outcome.error = gateway.promise.error

\* The gateway path failed: its error was caught by agentCliCommand
GatewayFailed == ~cli.local /\ cli.failure # NoGatewayError

\* C29: without --local, any failure of the gateway path leads to exactly
\* one invocation of the local agentCommand, whose outcome is the outcome of
\* the command; with --local the gateway is never contacted.
C29_GracefulFallback ==
  /\ cli.localCalls <= 1
  /\ GatewayFailed
       => /\ cli.localCalls = 1
          /\ cli.phase \in {"local", "done"}
          /\ cli.phase = "done" => cli.outcome.by = "local"
  /\ (cli.phase = "done" /\ cli.outcome.by = "gateway")
       => (cli.outcome.kind = "returned" /\ cli.localCalls = 0)
  /\ cli.local => (cli.gatewayCalls = 0 /\ gateway = NoGateway)

\* callGateway timed out and the command returned what the local agent returned
C29_Witness ==
  /\ cli.phase = "done"
  /\ cli.failure.kind = "timeout"
  /\ cli.outcome.kind = "returned"
  /\ cli.outcome.by = "local"
  /\ cli.localCalls = 1

-----------------------------------------------------------------------------
(* resolveSession and the claim about it *)

\* resolveSession(opts) under a store that holds entry at the session key
ResolveSession(requested, entry, uuid) ==
  /\ session.phase = "idle"
  /\ session' = [phase |-> "resolved", requested |-> requested, entry |-> entry,
                 uuid |-> uuid,
                 sessionId |-> SessionIdOf(requested, entry, uuid),
                 isNewSession |-> IsNewSessionOf(requested, entry)]
  /\ UNCHANGED nonSessionVars

SessionNext ==
  /\ session.phase = "idle"
  /\ \E requested \in RequestedIds, entry \in Entries, uuid \in Uuids :
       ResolveSession(requested, entry, uuid)

SessionSpec == Init /\ [][SessionNext]_vars

\* An explicit session id was supplied: opts.sessionId holds an id
Supplied == session.requested \notin {NoSessionId, "", " "}

\* The entry exists and is fresh
EntryFresh == session.entry.present /\ session.entry.fresh

\* The returned sessionId is the one randomUUID generated
Generated == session.sessionId = session.uuid

\* C30: the sessionId is the explicit requested id, else the stored id of a
\* fresh entry, else a newly generated id; isNewSession is true exactly when
\* the entry is not fresh or absent and no explicit id was supplied; so
\* isNewSession is true whenever the sessionId was newly generated.
C30_SessionIdPriority ==
  session.phase = "resolved"
    => /\ Supplied => session.sessionId \in {"sid-a", "sid-b"}
       /\ (~Supplied /\ EntryFresh) => session.sessionId = session.entry.sessionId
       /\ (~Supplied /\ ~EntryFresh) => Generated
       /\ session.isNewSession <=> (~EntryFresh /\ ~Supplied)
       /\ Generated => session.isNewSession

-----------------------------------------------------------------------------
(* ResolverSpec: one process calls resolveSession on the store file again  *)
(* and again while the clock advances by a poll interval or by the idle    *)
(* window.                                                                 *)

ResolverTickSteps == {pollIntervalMs, IdleMs}

ResolverInit ==
  /\ now = 0
  /\ ticks = 0
  /\ lock = NoLock
  /\ file \in ResolverFiles
  /\ cache = [p \in Procs |-> NoCache]
  /\ pc = [t \in Tasks |-> "idle"]
  /\ op = [t \in Tasks |-> NoOp]
  /\ startedAt = [t \in Tasks |-> 0]
  /\ nowL = [t \in Tasks |-> 0]
  /\ wakeAt = [t \in Tasks |-> 0]
  /\ store = [t \in Tasks |-> EmptyFcn]
  /\ result = [t \in Tasks |-> "none"]
  /\ hist = [t \in Tasks |-> {}]
  /\ held = [p \in Procs |-> <<>>]
  /\ act = NoAct
  /\ fallback = NoFallback
  /\ resolved = NoResolved
  /\ gateway = NoGateway
  /\ cli = NoCli
  /\ session = NoSession
  /\ resolution = NoResolution
  /\ agent = NoAgent

\* The result of a call without the cache entry it leaves
WithoutCache(r) == [f \in (DOMAIN r) \ {"cache"} |-> r[f]]

\* resolveSession that removes the entry it found stale from the store file
ResolveInStore_PurgeStale(opts, uuid) ==
  LET r == resolveSession("p1", opts, uuid)
  IN  /\ resolution.phase = "idle"
      /\ resolution' = [phase |-> "resolved", opts |-> opts, ret |-> WithoutCache(r)]
      /\ cache' = [cache EXCEPT !["p1"] = r.cache]
      /\ file' = IF r.hasEntry /\ ~r.fresh
                 THEN WriteFile([k \in (DOMAIN r.sessionStore) \ {r.sessionKey} |->
                                   r.sessionStore[k]])
                 ELSE file
      /\ UNCHANGED <<now, ticks, lock, pc, op, startedAt, nowL, wakeAt, store, result,
                     hist, held, act, engineVars, agent>>

\* A caller in process p1 calls resolveSession(opts)
ResolveInStore(opts, uuid) ==
  LET r == resolveSession("p1", opts, uuid)
  IN  /\ resolution.phase = "idle"
      /\ resolution' = [phase |-> "resolved", opts |-> opts, ret |-> WithoutCache(r)]
      /\ cache' = [cache EXCEPT !["p1"] = r.cache]
      /\ UNCHANGED <<now, ticks, lock, file, pc, op, startedAt, nowL, wakeAt, store, result,
                     hist, held, act, engineVars, agent>>

\* The caller is done with the result; the cache entry stays
ResolverReturn ==
  /\ resolution.phase = "resolved"
  /\ resolution' = NoResolution
  /\ UNCHANGED <<storeVars, engineVars, agent>>

ResolverNext ==
  \/ /\ resolution.phase = "idle"
     /\ \E opts \in ResolveOpts, uuid \in Uuids : ResolveInStore(opts, uuid)
  \/ ResolverReturn
  \/ \E d \in ResolverTickSteps : Tick(d, MaxResolverTicks)

ResolverSpec == ResolverInit /\ [][ResolverNext]_vars

\* The result of the last call, and the entry it resolved
Ret == resolution.ret
ResolvedEntry == Ret.sessionEntry

-----------------------------------------------------------------------------
-----------------------------------------------------------------------------
\* What the call was given: the explicit key, the key derived from the
\* sender, and the keys of the entries that store the supplied session id
Explicit == ExplicitSessionKey(resolution.opts)
Derived == DerivedSessionKey(resolution.opts)
IdKeys == KeysById(Ret.sessionStore, resolution.opts.sessionId)
DerivedCarriesId ==
  /\ Has(Ret.sessionStore, Derived)
  /\ Field(Ret.sessionStore[Derived], "sessionId") = resolution.opts.sessionId

\* C32: resolveSessionKeyForRequest applies the precedence explicit key >
\* key derived from the sender > lookup by session id: a derivable key is
\* always the result, the lookup is used only without explicit and derived key.
C32_KeyPrecedence ==
  resolution.phase = "resolved"
    => /\ Explicit # Undefined => Ret.sessionKey = Explicit
       /\ (Explicit = Undefined /\ Derived # Undefined) => Ret.sessionKey = Derived
       /\ (Explicit = Undefined /\ Derived = Undefined /\ IdKeys # {})
            => Ret.sessionKey \in IdKeys

\* C32 as the code has it: an explicit key wins; without one, a supplied
\* session id that some entry stores wins over the derived key unless the
\* derived key's own entry stores that id; otherwise the derived key is the
\* result (undefined without sender).
C32_KeyPrecedenceIdFirst ==
  resolution.phase = "resolved"
    => /\ Explicit # Undefined => Ret.sessionKey = Explicit
       /\ (Explicit = Undefined /\ IdKeys # {} /\ ~DerivedCarriesId)
            => Ret.sessionKey \in IdKeys
       /\ (Explicit = Undefined /\ (IdKeys = {} \/ DerivedCarriesId))
            => Ret.sessionKey = Derived

\* A key was derived from the sender, and the supplied id is stored under another key
C32_Witness ==
  /\ resolution.phase = "resolved"
  /\ Explicit = Undefined /\ Derived = "k1"
  /\ IdKeys = {"k2"}
  /\ Ret.sessionKey = "k2"

-----------------------------------------------------------------------------
\* C33: resolveSession and resolveSessionKeyForRequest never modify the
\* persisted store: a call leaves the store file and the lock file as they
\* were, whether the resolved entry is fresh, stale or absent.
C33_ResolverReadsOnly ==
  [][(resolution.phase = "idle" /\ resolution'.phase = "resolved")
       => (file' = file /\ lock' = lock)]_vars

\* A call has resolved a stale entry of an existing store file
C33_Witness ==
  /\ resolution.phase = "resolved"
  /\ file.exists
  /\ Ret.hasEntry /\ ~Ret.fresh
  /\ Has(ParseStoreFile(file), Ret.sessionKey)

-----------------------------------------------------------------------------
(* AgentSpec: one process runs agentCommand for sender alice, one call     *)
(* after the other, while another process commits changes to the store and *)
(* the clock advances.  Every updateSessionStore is one step.              *)

\* The clock advances within the idle window or past it
AgentTickSteps == {pollIntervalMs, IdleMs + pollIntervalMs}

AgentInit ==
  /\ now = 0
  /\ ticks = 0
  /\ lock = NoLock
  /\ file \in AgentFiles
  /\ cache = [p \in Procs |-> NoCache]
  /\ pc = [t \in Tasks |-> "idle"]
  /\ op = [t \in Tasks |-> NoOp]
  /\ startedAt = [t \in Tasks |-> 0]
  /\ nowL = [t \in Tasks |-> 0]
  /\ wakeAt = [t \in Tasks |-> 0]
  /\ store = [t \in Tasks |-> EmptyFcn]
  /\ result = [t \in Tasks |-> "none"]
  /\ hist = [t \in Tasks |-> {}]
  /\ held = [p \in Procs |-> <<>>]
  /\ act = NoAct
  /\ fallback = NoFallback
  /\ resolved = NoResolved
  /\ gateway = NoGateway
  /\ cli = NoCli
  /\ session = NoSession
  /\ resolution = NoResolution
  /\ agent = NoAgent

agentFrame == <<now, ticks, lock, pc, op, startedAt, nowL, wakeAt, store, result, hist,
                held, act, engineVars, resolution>>

\* Lines 300-318: resolveSession and the locals taken from its result
AgentResolve(opts, allowed) ==
  LET used == IdsOf(MigrateStore(ParseStoreFile(file)))
              \cup {agent.calls[i].sessionId : i \in DOMAIN agent.calls}
      r == resolveSession("p1", ResolveOptsOf(opts), FreshUuid(used))
  IN  /\ agent.phase = "idle"
      /\ agent' = [agent EXCEPT
                     !.phase = "resolved", !.opts = opts, !.allowed = allowed,
                     !.sessionId = r.sessionId, !.sessionKey = r.sessionKey,
                     !.hasEntry = r.hasEntry, !.sessionEntry = r.sessionEntry,
                     !.resolvedEntry = r.sessionEntry,
                     !.sessionStore = r.sessionStore, !.isNewSession = r.isNewSession,
                     !.provider = Undefined, !.model = Undefined,
                     !.wrote = {}, !.persisted = EmptyFcn, !.foreign = {},
                     !.calls = Append(IF @ = <<>> THEN @ ELSE <<@[Len(@)]>>,
                                      [sessionKey |-> r.sessionKey,
                                       hadEntry |-> r.hasEntry,
                                       requested |-> opts.sessionId,
                                       sessionId |-> r.sessionId,
                                       isNewSession |-> r.isNewSession,
                                       at |-> now, persistedAt |-> NoMtime])]
      /\ cache' = [cache EXCEPT !["p1"] = r.cache]
      /\ UNCHANGED <<file, agentFrame>>

\* Lines 350-376: a new session, or an entry without skills snapshot, gets
\* the snapshot, and the entry is written
AgentSkills ==
  LET needsSkillsSnapshot ==
        agent.isNewSession \/ ~TruthyId(Field(agent.sessionEntry, "skillsSnapshot"))
      current == IF agent.hasEntry THEN agent.sessionEntry
                 ELSE SessionEntryOf(agent.sessionId, now)
      next == Put(Put(Put(current, "sessionId", agent.sessionId), "updatedAt", now),
                  "skillsSnapshot", "snap")
      txn == updateSessionStore("p1", agent.sessionKey, next)
  IN  /\ agent.phase = "resolved"
      /\ IF agent.sessionKey # Undefined /\ needsSkillsSnapshot
         THEN /\ agent' = [agent EXCEPT
                             !.phase = "snapshotted",
                             !.sessionStore = Put(@, agent.sessionKey, next),
                             !.sessionEntry = next, !.hasEntry = TRUE,
                             !.wrote = @ \cup {"skills"}]
              /\ file' = txn.file
              /\ cache' = [cache EXCEPT !["p1"] = txn.cache]
         ELSE /\ agent' = [agent EXCEPT !.phase = "snapshotted"]
              /\ UNCHANGED <<file, cache>>
      /\ UNCHANGED agentFrame

\* Lines 379-392: the entry gets the session id, a new updatedAt and the
\* /think override, and is written
AgentPersist ==
  LET key == agent.sessionKey
      entry == IF Has(agent.sessionStore, key) THEN agent.sessionStore[key]
               ELSE IF agent.hasEntry THEN agent.sessionEntry
               ELSE SessionEntryOf(agent.sessionId, now)
      stamped == Put(Put(entry, "sessionId", agent.sessionId), "updatedAt", now)
      next == IF ~TruthyId(agent.opts.thinkOverride) THEN stamped
              ELSE IF agent.opts.thinkOverride = "off" THEN Del(stamped, "thinkingLevel")
              ELSE Put(stamped, "thinkingLevel", agent.opts.thinkOverride)
      txn == updateSessionStore("p1", key, next)
  IN  /\ agent.phase = "snapshotted"
      /\ IF key # Undefined
         THEN /\ agent' = [agent EXCEPT
                             !.phase = "persisted",
                             !.sessionStore = Put(@, key, next),
                             !.wrote = @ \cup {"persist"},
                             !.calls[Len(agent.calls)].persistedAt = now]
              /\ file' = txn.file
              /\ cache' = [cache EXCEPT !["p1"] = txn.cache]
         ELSE /\ agent' = [agent EXCEPT !.phase = "persisted"]
              /\ UNCHANGED <<file, cache>>
      /\ UNCHANGED agentFrame

\* lines 441-479 without the updateSessionStore of lines 458-460
AgentModelOverride_NoPersist ==
  LET entry == agent.sessionEntry
      hasStoredOverride == \/ TruthyId(Field(entry, "modelOverride"))
                           \/ TruthyId(Field(entry, "providerOverride"))
      allowedModelKeys == IF agent.allowed # {} \/ hasStoredOverride THEN agent.allowed ELSE {}
      overrideProvider == IF TruthyId(Trim(Field(entry, "providerOverride")))
                          THEN Trim(entry["providerOverride"]) ELSE DEFAULT_PROVIDER
      overrideModel == Trim(Field(entry, "modelOverride"))
      reset == /\ agent.hasEntry /\ agent.sessionKey # Undefined /\ hasStoredOverride
               /\ TruthyId(overrideModel)
               /\ ~isCliProvider(overrideProvider)
               /\ allowedModelKeys # {}
               /\ modelKey(overrideProvider, overrideModel) \notin allowedModelKeys
      applied == applyModelOverrideToSessionEntry(entry, now)
      after == IF reset THEN applied.entry ELSE entry
      storedModelOverride == Trim(Field(after, "modelOverride"))
      candidateProvider == IF TruthyId(Trim(Field(after, "providerOverride")))
                           THEN Trim(after["providerOverride"]) ELSE DEFAULT_PROVIDER
      useStored == /\ agent.hasEntry /\ TruthyId(storedModelOverride)
                   /\ \/ isCliProvider(candidateProvider)
                      \/ allowedModelKeys = {}
                      \/ modelKey(candidateProvider, storedModelOverride) \in allowedModelKeys
  IN  /\ agent.phase = "persisted"
      /\ agent' = [agent EXCEPT
                     !.phase = "ready",
                     !.sessionEntry = after,
                     !.provider = IF useStored THEN candidateProvider ELSE DEFAULT_PROVIDER,
                     !.model = IF useStored THEN storedModelOverride ELSE DEFAULT_MODEL]
      /\ UNCHANGED <<file, cache>>
      /\ UNCHANGED agentFrame

\* Lines 413-479: the model of the run; a stored override that the
\* allowlist excludes is reset in the entry and the entry is written
AgentModelOverride ==
  LET entry == agent.sessionEntry
      hasStoredOverride == \/ TruthyId(Field(entry, "modelOverride"))
                           \/ TruthyId(Field(entry, "providerOverride"))
      allowedModelKeys == IF agent.allowed # {} \/ hasStoredOverride THEN agent.allowed ELSE {}
      overrideProvider == IF TruthyId(Trim(Field(entry, "providerOverride")))
                          THEN Trim(entry["providerOverride"]) ELSE DEFAULT_PROVIDER
      overrideModel == Trim(Field(entry, "modelOverride"))
      reset == /\ agent.hasEntry /\ agent.sessionKey # Undefined /\ hasStoredOverride
               /\ TruthyId(overrideModel)
               /\ ~isCliProvider(overrideProvider)
               /\ allowedModelKeys # {}
               /\ modelKey(overrideProvider, overrideModel) \notin allowedModelKeys
      applied == applyModelOverrideToSessionEntry(entry, now)
      after == IF reset THEN applied.entry ELSE entry
      txn == updateSessionStore("p1", agent.sessionKey, after)
      storedModelOverride == Trim(Field(after, "modelOverride"))
      candidateProvider == IF TruthyId(Trim(Field(after, "providerOverride")))
                           THEN Trim(after["providerOverride"]) ELSE DEFAULT_PROVIDER
      useStored == /\ agent.hasEntry /\ TruthyId(storedModelOverride)
                   /\ \/ isCliProvider(candidateProvider)
                      \/ allowedModelKeys = {}
                      \/ modelKey(candidateProvider, storedModelOverride) \in allowedModelKeys
  IN  /\ agent.phase = "persisted"
      /\ agent' = [agent EXCEPT
                     !.phase = "ready",
                     !.sessionEntry = after,
                     !.sessionStore = IF reset /\ applied.updated
                                      THEN Put(@, agent.sessionKey, after) ELSE @,
                     !.wrote = IF reset /\ applied.updated THEN @ \cup {"override"} ELSE @,
                     !.persisted = IF reset /\ applied.updated
                                   THEN ParseStoreFile(txn.file)[agent.sessionKey]
                                   ELSE EmptyFcn,
                     !.provider = IF useStored THEN candidateProvider ELSE DEFAULT_PROVIDER,
                     !.model = IF useStored THEN storedModelOverride ELSE DEFAULT_MODEL]
      /\ IF reset /\ applied.updated
         THEN /\ file' = txn.file
              /\ cache' = [cache EXCEPT !["p1"] = txn.cache]
         ELSE UNCHANGED <<file, cache>>
      /\ UNCHANGED agentFrame

\* Lines 532-685: the run with the chosen model, and the return
AgentRun ==
  /\ agent.phase = "ready"
  /\ agent' = [NoAgent EXCEPT !.calls = agent.calls]
  /\ UNCHANGED <<file, cache, agentFrame>>

\* Another process commits a transaction that sets the label of the entry
\* under key k (updateSessionStoreEntry with the patch {label})
OtherProcessCommit(k) ==
  LET s == MigrateStore(ParseStoreFile(file))
  IN  /\ Has(s, k)
      /\ Field(s[k], "label") # "renamed"
      /\ file' = WriteFile(normalizeSessionStore(
                   Put(s, k, mergeSessionEntry(s[k], Put(EmptyFcn, "label", "renamed")))))
      /\ agent' = [agent EXCEPT !.foreign = IF agent.phase = "idle" THEN @ ELSE @ \cup {k}]
      /\ UNCHANGED <<cache, agentFrame>>

AgentNext ==
  \/ /\ agent.phase = "idle"
     /\ \E opts \in AgentOpts, allowed \in AllowedKeySets : AgentResolve(opts, allowed)
  \/ AgentSkills
  \/ AgentPersist
  \/ AgentModelOverride
  \/ AgentRun
  \/ \E k \in Keys : OtherProcessCommit(k)
  \/ \E d \in AgentTickSteps : Tick(d, MaxAgentTicks)

AgentSpec == AgentInit /\ [][AgentNext]_vars

\* The last two calls of agentCommand
First == agent.calls[1]
Second == agent.calls[2]

\* The first call found no entry for the sender and persisted its session;
\* the second call is for the same key, within the idle window of that write
Continues ==
  /\ Len(agent.calls) = 2
  /\ ~First.hadEntry /\ First.requested = Undefined /\ First.sessionKey # Undefined
  /\ First.persistedAt # NoMtime
  /\ Second.sessionKey = First.sessionKey /\ Second.requested = Undefined
  /\ Second.at <= First.persistedAt + IdleMs

-----------------------------------------------------------------------------
-----------------------------------------------------------------------------
\* The override the resolved entry stores, as lines 443-446 read it
StoredModel == Trim(Field(agent.resolvedEntry, "modelOverride"))
StoredProvider ==
  IF TruthyId(Trim(Field(agent.resolvedEntry, "providerOverride")))
  THEN Trim(agent.resolvedEntry["providerOverride"]) ELSE DEFAULT_PROVIDER
HasModelOverride ==
  /\ agent.calls[Len(agent.calls)].hadEntry
  /\ TruthyId(StoredModel)
  /\ agent.allowed # {}
DisallowedOverride ==
  /\ HasModelOverride
  /\ ~isCliProvider(StoredProvider)
  /\ modelKey(StoredProvider, StoredModel) \notin agent.allowed
AllowedOverride ==
  /\ HasModelOverride
  /\ modelKey(StoredProvider, StoredModel) \in agent.allowed

\* C35: a stored model override that a non-empty allowlist excludes (and
\* whose provider is no CLI provider) makes agentCommand run the default
\* provider/model, reset the override in the entry and persist the corrected
\* entry through updateSessionStore before the run; an allowed override is
\* used unchanged and not rewritten.
C35_DisallowedOverrideReset ==
  agent.phase = "ready"
    => /\ DisallowedOverride
            => /\ agent.provider = DEFAULT_PROVIDER /\ agent.model = DEFAULT_MODEL
               /\ ~Has(agent.sessionEntry, "modelOverride")
               /\ ~Has(agent.sessionEntry, "providerOverride")
               /\ "override" \in agent.wrote
               /\ agent.persisted = agent.sessionEntry
       /\ AllowedOverride
            => /\ agent.provider = StoredProvider /\ agent.model = StoredModel
               /\ "override" \notin agent.wrote
               /\ Field(agent.sessionEntry, "modelOverride")
                    = Field(agent.resolvedEntry, "modelOverride")

\* The excluded override openai/gpt was reset and the entry written
C35_Witness ==
  /\ agent.phase = "ready"
  /\ DisallowedOverride
  /\ StoredProvider = "openai" /\ StoredModel = "gpt"
  /\ agent.persisted # EmptyFcn
  /\ agent.model = DEFAULT_MODEL

-----------------------------------------------------------------------------
\* C38: agentCommand's session writes preserve concurrent updates: a field
\* of the session key that another process committed between this process's
\* resolveSession and one of its updateSessionStore calls keeps the other
\* process's value after agentCommand's write, and no entry under another
\* key is altered.
C38_ConcurrentUpdatesKept ==
  \A k \in agent.foreign :
    /\ Has(ParseStoreFile(file), k)
    /\ Field(ParseStoreFile(file)[k], "label") = "renamed"

-----------------------------------------------------------------------------
(* EnoentSpec: the lock protocol of two tasks when the directory of the    *)
(* store can be missing, so that open(lockPath, "wx") fails with ENOENT.   *)

\* Lines 745-753: open fails with ENOENT (the directory holds neither store
\* nor lock); mkdir is tried, its failure ignored, and the task sleeps
OpenLockEnoent(t) ==
  /\ pc[t] = "open"
  /\ ~lock.present /\ ~file.exists
  /\ pc' = [pc EXCEPT ![t] = "sleep"]
  /\ wakeAt' = [wakeAt EXCEPT ![t] = now + pollIntervalMs]
  /\ UNCHANGED <<now, ticks, lock, file, cache, op, startedAt, nowL, store, result, hist,
                 held, act, nonStoreVars>>

EnoentNext ==
  \/ \E t \in RecoveryTasks : Start(t, IncOp)
  \/ \E t \in RecoveryTasks : TaskStep(t)
  \/ \E t \in RecoveryTasks : OpenLockEnoent(t)
  \/ \E d \in RecoveryTickSteps : Tick(d, MaxRecoveryTicks)

EnoentSpec == Init /\ [][EnoentNext]_vars

\* C36: lock acquisition always terminates: a call of withSessionStoreLock
\* whose attempt to open the lock file comes more than timeoutMs after its
\* start either acquires the lock or throws there, also when the open fails
\* with ENOENT because the directory of the store is missing.
C36_AcquisitionTerminates ==
  [][\A t \in RecoveryTasks :
       (pc[t] = "open" /\ pc'[t] # "open" /\ now - startedAt[t] > timeoutMs)
         => pc'[t] \in {"timeout", "read", "save"}]_vars

-----------------------------------------------------------------------------
(* ThrowSpec: two tasks run updateSessionStore and updateSessionStoreEntry *)
(* with callbacks that can throw.                                          *)

ThrowOps == {IncOp, [kind |-> "entry", key |-> "k1", arg |-> "patch"]}

\* The mutator (line 702) or the update callback (line 794) throws: the
\* body ends before saveSessionStoreUnlocked, and the finally block follows
BodyThrows(t) ==
  LET loaded == loadSessionStore(ProcOf(t), op[t].kind = "update")
  IN  /\ pc[t] = "read"
      /\ op[t].kind = "entry" => Has(loaded.ret.val, op[t].key)
      /\ cache' = [cache EXCEPT ![ProcOf(t)] = loaded.cache]
      /\ hist' = [hist EXCEPT ![t] = @ \cup {"cb"}]
      /\ result' = [result EXCEPT ![t] = "mutator-error"]
      /\ pc' = [pc EXCEPT ![t] = "release"]
      /\ UNCHANGED <<now, ticks, lock, file, op, startedAt, nowL, wakeAt, store, held, act,
                     nonStoreVars>>

ThrowNext ==
  \/ \E t \in TxnTasks : \E o \in ThrowOps : Start(t, o)
  \/ \E t \in TxnTasks : OpenLock(t)
  \/ \E t \in TxnTasks : StatLock(t)
  \/ \E t \in TxnTasks : Wake(t)
  \/ \E t \in TxnTasks : BodyRead(t)
  \/ \E t \in TxnTasks : BodyThrows(t)
  \/ \E t \in TxnTasks : SaveBegin(t)
  \/ \E t \in TxnTasks : SaveRename(t)
  \/ \E t \in TxnTasks : ReleaseLock(t)
  \/ Tick(pollIntervalMs, MaxThrowTicks)

ThrowSpec == Init /\ [][ThrowNext]_vars

\* C37: when the mutator of updateSessionStore or the updater of
\* updateSessionStoreEntry throws, the error reaches the caller, the call
\* performs no save and leaves the store file as it is, and the lock file
\* is removed, so that a later transaction acquires the lock.
C37_MutatorThrows ==
  /\ [][\A t \in TxnTasks :
          (pc[t] = "read" /\ result'[t] = "mutator-error")
            => (file' = file /\ pc'[t] = "release")]_vars
  /\ [](\A t \in TxnTasks :
          result[t] = "mutator-error"
            => /\ "write" \notin hist[t]
               /\ pc[t] \in {"release", "done"})
  /\ [][\A t \in TxnTasks :
          (result[t] = "mutator-error" /\ pc[t] = "release" /\ pc'[t] # "release")
            => (pc'[t] = "done" /\ ~lock'.present /\ file' = file
                /\ result'[t] = "mutator-error")]_vars

\* The callback of one task has thrown and the call has ended; the other
\* task then created the lock and runs its body
C37_Witness ==
  \E t, u \in TxnTasks :
    /\ pc[t] = "done" /\ result[t] = "mutator-error"
    /\ pc[u] \in BodyPcs /\ lock.present /\ lock.owner = u
    /\ lock.mtime >= startedAt[t]
    /\ "body" \in hist[t]

-----------------------------------------------------------------------------
\* The number of times the agent is run for the message of the invocation:
\* by the gateway, once the request was sent and not answered with an
\* error, and by agentCommand in this process
GatewayRuns == IF gateway.request \in {"pending", "resolved"} THEN 1 ELSE 0
AgentExecutions == GatewayRuns + cli.localCalls

\* C39: at-most-once execution: one agentCliCommand invocation makes the
\* agent run for the message at most once, also when the gateway has the
\* request and callGateway rejects by timeout or connection close.
C39_AtMostOnce == AgentExecutions <= 1

-----------------------------------------------------------------------------
(* LifecycleSpec: the model execution of agentCommand, lines 532-653:      *)
(* runWithModelFallback over the candidates, the lifecycle events of the   *)
(* runs and the terminal event agentCommand emits itself.                  *)

\* The variables the lifecycle bookkeeping of agentCommand leaves alone
nonLifecycleVars == <<storeVars, fallback, resolved, gateway, cli, session, resolution>>

\* The terminal phases of the lifecycle stream (lines 614-615)
TerminalPhases == {"end", "error"}

\* Lines 532-533: agentCommand reaches model execution; cliCandidates are
\* the candidates for whose provider isCliProvider answers true
LifecycleStart(cliCandidates) ==
  /\ agent.phase = "idle"
  /\ fallback.phase = "idle"
  /\ agent' = [NoAgent EXCEPT !.phase = "running", !.cliCandidates = cliCandidates,
                              !.lifecycleEnded = FALSE]
  /\ UNCHANGED nonLifecycleVars

\* The embedded run of the current candidate emits a terminal lifecycle
\* event: onAgentEvent (lines 609-618) sets lifecycleEnded.  runCliAgent
\* (lines 553-569) is given no onAgentEvent
RunEmits(phase) ==
  /\ agent.phase = "running"
  /\ fallback.phase = "running"
  /\ fallback.i \notin agent.cliCandidates
  /\ agent.emittedBy # fallback.i
  /\ agent' = [agent EXCEPT !.events = Append(@, phase), !.lifecycleEnded = TRUE,
                            !.emittedBy = fallback.i]
  /\ UNCHANGED nonLifecycleVars

\* The terminal event the run of the current candidate has emitted, if any
EmittedByCurrent ==
  IF agent.emittedBy = fallback.i /\ agent.events # <<>>
  THEN agent.events[Len(agent.events)] ELSE "none"

\* Lines 623-652: runWithModelFallback has returned or thrown; agentCommand
\* emits 'end' or 'error' unless lifecycleEnded is set
LifecycleSettled ==
  /\ agent.phase = "running"
  /\ fallback.phase \in {"returned", "threw"}
  /\ agent' = [agent EXCEPT
       !.phase = "done",
       !.events = IF agent.lifecycleEnded THEN @
                  ELSE Append(@, IF fallback.phase = "returned" THEN "end" ELSE "error")]
  /\ UNCHANGED nonLifecycleVars

\* agentCommand returns or throws; the next invocation starts afresh
LifecycleReturn ==
  /\ agent.phase = "done"
  /\ agent' = NoAgent
  /\ fallback' = NoFallback
  /\ UNCHANGED <<storeVars, resolved, gateway, cli, session, resolution>>

\* A run that emitted 'error' rejects and a run that emitted 'end' resolves;
\* no profile is in cooldown
LifecycleNext ==
  \/ \E cliCandidates \in SUBSET (1 .. MaxCandidates) : LifecycleStart(cliCandidates)
  \/ /\ agent.phase = "running"
     /\ \E n \in 1 .. MaxCandidates : Begin(n, TRUE, FALSE, [i \in 1 .. n |-> <<>>])
  \/ \E phase \in TerminalPhases : RunEmits(phase)
  \/ /\ agent.phase = "running"
     /\ EmittedByCurrent # "error"
     /\ RunResolves
  \/ /\ agent.phase = "running"
     /\ EmittedByCurrent # "end"
     /\ \E err \in RunErrors : RunRejects(err)
  \/ LifecycleSettled
  \/ LifecycleReturn

LifecycleSpec == Init /\ [][LifecycleNext]_vars

\* C40: every run of agentCommand that reaches model execution produces a
\* terminal lifecycle event, and the last one is 'end' when
\* runWithModelFallback succeeded and 'error' when it threw, also when the
\* embedded run of an earlier candidate emitted 'error' before a later
\* candidate succeeded.
C40_TerminalEvent ==
  agent.phase = "done"
    => /\ agent.events # <<>>
       /\ agent.events[Len(agent.events)] =
            (IF fallback.phase = "returned" THEN "end" ELSE "error")

====
